---------------------------- MODULE Spec2Model ----------------------------
(***************************************************************************)
(* Support orchestrator demo: the hub-and-spoke task dispatch protocol.    *)
(*                                                                         *)
(* The orchestrator's decision logic is the workflow text returned by      *)
(* build_orchestrator_prompt (src/src/orchestrator/orchestrator.py), run   *)
(* once per incoming message by OrchestratorAdapter.on_message.  The       *)
(* model follows that text rule by rule:                                   *)
(*   - what the text states is modelled as stated (Phase 1 dispatch,       *)
(*     message source by room, Phase 3 branch conditions, Critical Rules); *)
(*   - what the text leaves open (which of several results of one room is  *)
(*     read, whether an error ends the wait, the hedged Browser condition  *)
(*     of Branch B) is a nondeterministic choice.                          *)
(* Messages of one room are handled in order; rooms are handled            *)
(* independently, so result handlers interleave with a dispatch in         *)
(* progress.                                                               *)
(* The specialists follow the prompt of BaseSpecialist.build_custom_section *)
(* (src/src/agents/base_specialist.py), whose Protocol, Response Format    *)
(* and "only respond to the orchestrator" rules the four agents repeat.    *)
(***************************************************************************)
EXTENDS Naturals, Sequences, FiniteSets

\* ------------------------------------------------------------------ bounds
\* Customer messages per run.
MaxCustomerMsgs == 2
\* Disturbances per run: a customer message after the first, a duplicated
\* or unknown-task_id result, a failed send, a specialist that stays silent.
MaxEvents == 1
\* Syntheses per investigation.
MaxResolutions == 2

\* ------------------------------------------------------- rooms and payloads
Roles == {"excel", "github", "browser"}
SpecialistRooms == Roles \cup {"linear"}

\* What a task_result of each room can say, as far as Phase 3 reads it.
Vals(room) ==
  CASE room = "excel"   -> {"entitled", "not_entitled", "error"}
    [] room = "github"  -> {"match", "no_match", "error"}
    [] room = "browser" -> {"reproduced", "not_reproduced", "error"}
    [] room = "linear"  -> {"created", "error"}

IntentOf(room) ==
  CASE room = "excel"   -> "lookup_customer"
    [] room = "github"  -> "search_bug_reports"
    [] room = "browser" -> "reproduce_issue"
    [] room = "linear"  -> "create_bug_report"

\* supported_intents of each specialist.
SupportedIntents(room) ==
  CASE room = "excel"   -> {"lookup_customer", "search_customers"}
    [] room = "github"  -> {"search_bug_reports"}
    [] room = "browser" -> {"reproduce_issue"}
    [] room = "linear"  -> {"create_bug_report", "search_issues"}

VARIABLES
  world,       \* what each initial specialist's read-only data source answers
  customers,   \* customer messages handled so far
  inbox,       \* per specialist room: results delivered, not yet handled
  reqs,        \* per specialist room: task_requests delivered, not yet answered
  invs,        \* the investigations, one per customer message
  pc,          \* the user-room handler's position in Phase 1
  events,      \* disturbances so far
  handled,     \* per specialist: each message it handled, with what it sent
  timing,      \* the timing data of one task_result (SpecTiming)
  config,      \* the environment, the room configuration and its use (SpecConfig)
  setup,       \* a run of the demo setup script (SpecSetup)
  adapter,     \* the orchestrator's adapter and its on_message calls (SpecAdapter)
  graph,       \* a specialist's graph and its message handlings (SpecLimit)
  creds,       \* the credential sources of one specialist and what it resolves (SpecCreds)
  bridge,      \* the bridge server: event queue, UI clients, broadcast loop (SpecBridge)
  demo,        \* the demo runner, its tasks and what it enqueued (SpecDemo)
  listener,    \* the bridge's room listener and the events it queued (SpecListener)
  envfile      \* the .env file under _append_env_vars (SpecEnvFile)

\* The investigation's state, and the state of the separate specifications
\* of the parts that do not take part in an investigation.
mainVars == <<world, customers, inbox, reqs, invs, pc, events, handled>>
sideVars == <<timing, config, setup, adapter, graph, creds, bridge, demo, listener, envfile>>
vars == <<mainVars, sideVars>>

\* env_map of from_env, in its order.
RoomKeys == <<"user", "excel", "github", "browser", "linear">>

\* Nothing has been loaded from the environment.
NotLoaded == [raised |-> "pending", names |-> <<>>, rooms |-> [k \in {} |-> ""]]

NoConfig ==
  [ env    |-> [k \in {RoomKeys[n] : n \in 1..Len(RoomKeys)} |-> "unset"],
    loaded |-> NotLoaded,
    lookup |-> <<>>,
    sent   |-> <<>> ]

\* AGENT_DEFS, in its order.
AgentDefs == <<"support_orchestrator", "excel", "github_support", "browser", "linear">>

AgentKeys == {AgentDefs[n] : n \in 1..Len(AgentDefs)}

\* An agent without agent_id and api_key in agent_config.yaml.
NoEntry == [agent_id |-> "", api_key |-> ""]

\* setup() has not run.
NoSetup ==
  [ pc       |-> "register",
    agent    |-> 1,
    room     |-> 1,
    platform |-> [a \in AgentKeys |-> ""],
    memory   |-> [a \in AgentKeys |-> NoEntry],
    file     |-> [a \in AgentKeys |-> NoEntry] ]

\* The adapter as constructed: no cross-room tool in additional_tools, the
\* system prompt as configured, and no on_message call entered.
MaxCalls == 3

Calls == 1..MaxCalls

NoCall == [pc |-> "idle", room |-> "none", original_tools |-> <<>>, original_prompt |-> <<>>]

NoAdapter == [additional_tools |-> <<>>, system_prompt |-> <<>>, calls |-> [c \in Calls |-> NoCall]]

\* A specialist's graph as built: astream_events is the original function (no
\* wrapper, written as the empty sequence of wrapping handlings) and no
\* message handling is entered.
NoHandling == [pc |-> "idle", orig_astream |-> <<>>, recursion_limit |-> 0]

NoGraph == [static_graph |-> FALSE, astream_events |-> <<>>, handlings |-> [c \in Calls |-> NoHandling]]

\* A credential value: whose it is and where it was read from; Unset is the
\* empty string of a variable or key that is absent.
Unset == [owner |-> "", from |-> ""]

\* No specialist is resolving its credentials.
NoCreds == [agent_name |-> "none",
            environ |-> [agent_id |-> Unset, api_key |-> Unset, urls |-> FALSE],
            dotenv |-> [agent_id |-> Unset, api_key |-> Unset, urls |-> FALSE],
            yaml |-> [agent_id |-> Unset, api_key |-> Unset],
            result |-> [raised |-> "pending", agent_id |-> Unset, api_key |-> Unset]]

\* The bridge server as constructed: an empty event queue, no UI client, and
\* the broadcast loop waiting on the queue.
MaxClients == 3

MaxQueued == 3

Clients == 1..MaxClients

NoBroadcast == [pc |-> "get", event |-> 0, si_used |-> 0, initial |-> {}, visited |-> {},
                dead |-> {}, ws |-> 0]

NoBridge == [started |-> FALSE, queue |-> <<>>, put |-> 0, clients |-> {}, closed |-> {},
             accepted |-> {}, loop |-> NoBroadcast,
             received |-> [c \in Clients |-> <<>>], discarded |-> {}]

\* The demo runner as constructed: not running, no task, nothing enqueued.
NoDemo == [is_live_mode |-> FALSE, running |-> FALSE, tasks |-> {}, playback |-> 0, now |-> 0,
           log |-> <<>>, commands |-> <<>>]

\* The listener before any room message has reached it.
MaxMessages == 2

MessageIds == 1..MaxMessages

NoPayload == [sender_name |-> "none", message_type |-> "none", content |-> <<>>]

NoListener == [content |-> <<>>, payloads |-> [m \in MessageIds |-> NoPayload],
               delivered |-> {}, queue |-> <<>>]

\* No call of _append_env_vars: an empty .env file and no variables to write.
NoEnvFile == [env_vars |-> <<>>, file |-> <<>>, calls |-> 0, before |-> <<>>, first |-> <<>>]

\* No task_result has been timed.
NoTiming == [room |-> "none", started_at |-> 0, completed_at |-> 0, processing_ms |-> 0]

NoInv ==
  [ base        |-> 0,
    acked       |-> FALSE,
    reqLog      |-> <<>>,
    failed      |-> {},
    returned    |-> FALSE,
    received    |-> [r \in Roles |-> <<>>],
    resolutions |-> <<>>,
    replies     |-> <<>> ]

\* Nothing has happened in any room.
NoMessages ==
  /\ customers = 0
  /\ inbox = [r \in SpecialistRooms |-> <<>>]
  /\ reqs = [r \in SpecialistRooms |-> <<>>]
  /\ invs = <<>>
  /\ pc = "idle"
  /\ events = 0
  /\ handled = [r \in SpecialistRooms |-> <<>>]

Init ==
  /\ world \in [Roles -> UNION {Vals(r) : r \in Roles}]
  /\ \A r \in Roles : world[r] \in Vals(r)
  /\ NoMessages
  /\ timing = NoTiming
  /\ config = NoConfig
  /\ setup = NoSetup
  /\ adapter = NoAdapter
  /\ graph = NoGraph
  /\ creds = NoCreds
  /\ bridge = NoBridge
  /\ demo = NoDemo
  /\ listener = NoListener
  /\ envfile = NoEnvFile

\* --------------------------------------------------------------- helpers
Cur == Len(invs)

\* task_ids minted so far; Critical Rule 7 asks for a unique task_id for
\* every task_request, so a new investigation continues the numbering.
Minted == IF invs = <<>> THEN 0 ELSE invs[Cur].base + Len(invs[Cur].reqLog)

\* Mutant: the literal ids of the request templates, task-004 for every
\* request after the fan-out.
NextTaskIdTemplate(inv) ==
  inv.base + (IF Len(inv.reqLog) < 3 THEN Len(inv.reqLog) + 1 ELSE 4)

\* Critical Rule 7 ("task-001", "task-002", ...): the next number after
\* those this investigation has used.
NextTaskId(inv) == inv.base + Len(inv.reqLog) + 1

NextStep(step) ==
  CASE step = "ack"     -> "excel"
    [] step = "excel"   -> "github"
    [] step = "github"  -> "browser"
    [] step = "browser" -> "idle"

\* Mutant: request and reply in turn, each send waiting for the result of
\* the send before it.
CanSendAfterReply(inv, role) ==
  /\ role = "github" => inv.received["excel"] # <<>>
  /\ role = "browser" => inv.received["github"] # <<>>

\* Phase 1 step 2: the three sends are issued together; none waits for a reply.
CanSend(inv, role) == TRUE

\* Mutant: a specialist whose result is already in the history is skipped.
RolesNotInHistory(history) ==
  {r \in Roles : \A j \in 1..Len(history) : history[j].received[r] = <<>>}

\* Critical Rules 2 and 13: all three specialists, whatever the history holds.
RolesToDispatch(history) == Roles

\* _send_to_room catches every exception and returns an error string:
\* a send either delivers the message or fails, and never raises.
SendOutcomes == IF events < MaxEvents THEN {TRUE, FALSE} ELSE {TRUE}

\* send_to_<name>_room delivers to the room configured under that name.
RoomOfTool(tool) == tool

\* The customer's message, as one piece of text.
OriginalMessage == "original_message"

\* What the description of a bug report can be made of: "customer context,
\* account ID, reproduction results, console errors", always something; the
\* customer's own words may or may not be quoted in it.
Descriptions ==
  { {"customer_context"}, {"customer_context", OriginalMessage} }

\* The task_request sent for an investigation through the tool of `role`.
\* Every request carries the customer's message in user_request; only
\* create_bug_report has a description among its params.
LogOf(inv, role, ok) ==
  [ role         |-> role,
    room         |-> RoomOfTool(role),
    task_id      |-> NextTaskId(inv),
    intent       |-> IntentOf(role),
    user_request |-> OriginalMessage,
    description  |-> {},
    ok           |-> ok ]

Delivered(queues, i, inv, role, ok) ==
  IF ok
    THEN [queues EXCEPT ![RoomOfTool(role)] =
            Append(@, [ task_id |-> NextTaskId(inv), origin |-> i,
                        sender |-> "SupportOrchestrator", kind |-> "task_request",
                        intent |-> IntentOf(RoomOfTool(role)) ])]
    ELSE queues

\* ----------------------------------------- Phase 1: acknowledge and dispatch
\* Mutant: the handler starts with the first task_request.
FirstStepDispatch == "excel"

\* Phase 1 step 1: "FIRST: Call send_to_user_room with an immediate
\* acknowledgment"; Critical Rule 1.
FirstStep == "ack"

\* on_message for a customer message of the user room: a brand new
\* investigation (Critical Rule 13).
BeginDispatch ==
  /\ pc = "idle"
  /\ customers < MaxCustomerMsgs
  /\ customers = 0 \/ events < MaxEvents
  /\ customers' = customers + 1
  /\ events' = IF customers = 0 THEN events ELSE events + 1
  /\ invs' = Append(invs, [NoInv EXCEPT !.base = Minted])
  /\ pc' = FirstStep
  /\ UNCHANGED <<world, inbox, reqs, handled>>
  /\ UNCHANGED sideVars

\* Phase 1 step 1: the acknowledgement goes to the user room, then the
\* handler moves on to the task_requests.
Acknowledge ==
  /\ pc = "ack"
  /\ invs' = [invs EXCEPT ![Cur].acked = TRUE]
  /\ pc' = NextStep(pc)
  /\ UNCHANGED <<world, customers, inbox, reqs, events, handled>>
  /\ UNCHANGED sideVars

\* Mutant: a send that fails raises and ends the handler.
AfterSendRaising(step, ok) == IF ok THEN NextStep(step) ELSE "idle"

\* _send_to_room returns a string whether the send worked or not, so the
\* handler goes on to its next send either way.
AfterSend(step, ok) == NextStep(step)

\* Phase 1 step 2: send_to_excel_room, send_to_github_room,
\* send_to_browser_room; the handler returns after the third.
SendRequest ==
  /\ pc \in Roles
  /\ CanSend(invs[Cur], pc)
  /\ IF pc \in RolesToDispatch(SubSeq(invs, 1, Cur - 1))
       THEN \E ok \in SendOutcomes :
              /\ invs' = [invs EXCEPT
                    ![Cur].returned = (AfterSend(pc, ok) = "idle"),
                    ![Cur].reqLog = Append(@, LogOf(invs[Cur], pc, ok)),
                    ![Cur].failed = IF ok THEN @ ELSE @ \cup {pc}]
              /\ reqs' = Delivered(reqs, Cur, invs[Cur], pc, ok)
              /\ events' = IF ok THEN events ELSE events + 1
              /\ pc' = AfterSend(pc, ok)
       ELSE /\ invs' = [invs EXCEPT ![Cur].returned = (NextStep(pc) = "idle")]
            /\ pc' = NextStep(pc)
            /\ UNCHANGED <<reqs, events>>
  /\ UNCHANGED <<world, customers, inbox, handled>>
  /\ UNCHANGED sideVars

\* ------------------------------------------------------------ specialists
\* What the specialist of a room finds in its data source.
Answers(room) == IF room \in Roles THEN {world[room]} ELSE Vals(room)

\* The agent that works in a specialist room.
AgentOf(room) ==
  CASE room = "excel"   -> "ExcelAgent"
    [] room = "github"  -> "GitHubSupportAgent"
    [] room = "browser" -> "BrowserAgent"
    [] room = "linear"  -> "LinearAgent"

\* Mutant: every protocol message is answered, whoever sent it.
RespondsToAnyProtocolMessage(msg, room) ==
  msg.kind \in {"task_request", "task_result"}

\* Rule 1: "Only respond to messages from @SupportOrchestrator containing
\* task_request JSON. Ignore everything else"; "Do not respond to your own
\* messages".
Responds(msg, room) ==
  msg.sender = "SupportOrchestrator" /\ msg.kind = "task_request"

\* Mutant: the agent mentions itself next to the orchestrator.
ReplyMentionsWithSelf(room) == {"SupportOrchestrator", AgentOf(room)}

\* Response Format: mentions=['SupportOrchestrator'].
ReplyMentions(room) == {"SupportOrchestrator"}

\* thenvoi_send_message posts in the room of the message being handled.
ReplyRoom(room) == room

\* Protocol step 2: "Validate the intent is one you support."
Validates(msg, room) == msg.intent \in SupportedIntents(room)

\* Whether the backing tool is called for a request.  A supported intent
\* reaches step 3, the tool call.  For an unsupported one step 2 answers
\* with an error; the browser and the Linear prompt also rule "Always call
\* ... before responding", so there the tool may have run all the same.
ToolRuns(msg, room) ==
  IF Validates(msg, room) THEN {TRUE}
  ELSE IF room \in {"browser", "linear"} THEN {TRUE, FALSE}
  ELSE {FALSE}

\* The tool reports a failure: lookup_customer returns found=False with an
\* error (no row, or an exception), search_github_issues returns an "error"
\* key (non-zero exit status of gh, or an exception).
ToolFailed(room, v) == v = "error"

\* Mutant: the tool's output is passed on as a successful result.
StatusIgnoringFailure(msg, room, v) ==
  IF Validates(msg, room) THEN "success" ELSE "error"

\* Protocol step 2 and Rule 5 ("If a tool call fails or returns no
\* results, return a task_result with status "error"").
StatusOf(msg, room, v) ==
  IF Validates(msg, room) /\ ~ToolFailed(room, v) THEN "success" ELSE "error"

\* What the task_result says to the orchestrator.
Reported(msg, room, v) ==
  IF StatusOf(msg, room, v) = "error" THEN "error" ELSE v

\* Response Format: "task_id":"<from request>".
TaskResult(msg, room, v) ==
  [ task_id |-> msg.task_id, val |-> Reported(msg, room, v),
    room |-> ReplyRoom(room), origin |-> msg.origin ]

\* Mutant: after its task_result the agent sends the same once more.
RepliesTwice(msg, room, v) ==
  << TaskResult(msg, room, v), TaskResult(msg, room, v) >>

\* Protocol, last step: "Respond with a task_result": one message.
Replies(msg, room, v) == << TaskResult(msg, room, v) >>

\* Mutant: the result data are sent along with the error as well.
PayloadFieldsWithResult(status) ==
  IF status = "success" THEN {"result"} ELSE {"result", "error"}

\* Response Format: "status":"success","result":{...} for a successful
\* result, "status":"error","error":{...} for errors.
PayloadFields(status) ==
  IF status = "success" THEN {"result"} ELSE {"error"}

\* Response Format: "error":{"code":"<ERROR_CODE>","message":"<description>"}.
ErrorKeys(status) ==
  IF status = "error" THEN {"code", "message"} ELSE {}

\* "<ERROR_CODE>": the prompts name no error code; the agent picks one.
ErrorCodes(msg, room) ==
  IF Validates(msg, room) THEN {"TOOL_ERROR"}
  ELSE {"UNSUPPORTED_INTENT", "INVALID_INTENT"}

\* What a specialist sent for a message: the messages and their mentions.
Outbox(msg, room, v, code) ==
  [ k \in 1..Len(Replies(msg, room, v)) |->
      [ task_id  |-> Replies(msg, room, v)[k].task_id,
        room     |-> Replies(msg, room, v)[k].room,
        mentions |-> ReplyMentions(room),
        status   |-> StatusOf(msg, room, v),
        fields   |-> PayloadFields(StatusOf(msg, room, v)),
        error    |-> ErrorKeys(StatusOf(msg, room, v)),
        code     |-> IF StatusOf(msg, room, v) = "error" THEN code ELSE "none" ] ]

\* A specialist answers the oldest message of its room, a task_request of
\* the orchestrator, with a task_result carrying the request's task_id.
SpecialistResponds(room) ==
  /\ reqs[room] # <<>>
  /\ Responds(Head(reqs[room]), room)
  /\ \E v \in Answers(room) : \E ran \in ToolRuns(Head(reqs[room]), room) :
     \E code \in (IF StatusOf(Head(reqs[room]), room, v) = "error"
                    THEN ErrorCodes(Head(reqs[room]), room) ELSE {"none"}) :
       /\ inbox' = [r \in SpecialistRooms |->
             inbox[r] \o SelectSeq(Replies(Head(reqs[room]), room, v),
                                   LAMBDA m : m.room = r)]
       /\ handled' = [handled EXCEPT ![room] =
             Append(@, [ cause |-> Head(reqs[room]),
                         ran   |-> ran,
                         tool  |-> IF ran THEN v ELSE "none",
                         out   |-> Outbox(Head(reqs[room]), room, v, code) ])]
  /\ reqs' = [reqs EXCEPT ![room] = Tail(@)]
  /\ UNCHANGED <<world, customers, invs, pc, events>>
  /\ UNCHANGED sideVars

\* Any other message is ignored: nothing is sent.
SpecialistIgnores(room) ==
  /\ reqs[room] # <<>>
  /\ ~Responds(Head(reqs[room]), room)
  /\ handled' = [handled EXCEPT ![room] =
        Append(@, [cause |-> Head(reqs[room]), ran |-> FALSE, tool |-> "none",
                   out |-> <<>>])]
  /\ reqs' = [reqs EXCEPT ![room] = Tail(@)]
  /\ UNCHANGED <<world, customers, inbox, invs, pc, events>>
  /\ UNCHANGED sideVars

\* A specialist that is down or stuck: the request is never answered.
SpecialistSilent(room) ==
  /\ reqs[room] # <<>>
  /\ Responds(Head(reqs[room]), room)
  /\ events < MaxEvents
  /\ events' = events + 1
  /\ reqs' = [reqs EXCEPT ![room] = Tail(@)]
  /\ UNCHANGED <<world, customers, inbox, invs, pc, handled>>
  /\ UNCHANGED sideVars

\* An intent a request can name that the specialist of the room does not
\* support: one of another specialist.  Such requests are followed in the
\* rooms of the three initial specialists.
UnsupportedIntents(room) ==
  IF room \in Roles
    THEN {IF room = "excel" THEN "search_bug_reports" ELSE "lookup_customer"}
    ELSE {}

\* What else can be posted in a specialist's room: the specialist's own
\* task_result shown to it again, a task_request of another participant, a
\* message of the orchestrator that is not protocol JSON.
OtherMessages(room) ==
  { [task_id |-> 0, origin |-> 0, sender |-> "UIObserver", kind |-> "task_request",
     intent |-> IntentOf(room)],
    [task_id |-> 0, origin |-> 0, sender |-> "SupportOrchestrator", kind |-> "text",
     intent |-> "none"] }
  \cup
  { [task_id |-> 0, origin |-> 0, sender |-> "SupportOrchestrator",
     kind |-> "task_request", intent |-> n] : n \in UnsupportedIntents(room) }
  \cup
  { [task_id |-> handled[room][k].out[1].task_id, origin |-> 0,
     sender |-> AgentOf(room), kind |-> "task_result", intent |-> "none"] :
      k \in {j \in 1..Len(handled[room]) : handled[room][j].out # <<>>} }

DeliverOther(room) ==
  /\ events < MaxEvents
  /\ \E msg \in OtherMessages(room) :
       reqs' = [reqs EXCEPT ![room] = Append(@, msg)]
  /\ events' = events + 1
  /\ UNCHANGED <<world, customers, inbox, invs, pc, handled>>
  /\ UNCHANGED sideVars

\* ------------------------------------------- Phase 2: collect the results
\* "Determining Message Source": the room a message arrived in says whose
\* result it is; the task_id it carries plays no part.
RecordedUnder(m, room) == room

\* "Accumulate the data": the result joins what was received from that room.
Accumulate(inv, m, room) ==
  [inv EXCEPT !.received[RecordedUnder(m, room)] = Append(@, m)]

\* Mutant: the browser result, expected last, ends the wait.
HasBrowserResult(inv) ==
  inv.received["browser"] # <<>> \/ "browser" \in inv.failed

\* "You need results from all 3 initial specialists": a specialist whose
\* request could not be sent has errored out and is not waited for.
HasAllResults(inv) ==
  \A r \in Roles : inv.received[r] # <<>> \/ r \in inv.failed

\* Critical Rule 9: "... unless one errors out".
ErroredOut(inv) ==
  \/ inv.failed # {}
  \/ \E r \in Roles : \E k \in 1..Len(inv.received[r]) :
        inv.received[r][k].val = "error"

\* ------------------------------------------ Phase 3: synthesize and respond
\* What the synthesis can read as a room's result: any result received from
\* it, "none" when there is none.
Read(inv, r) ==
  IF inv.received[r] = <<>>
    THEN {"none"}
    ELSE {inv.received[r][k].val : k \in 1..Len(inv.received[r])}

UsedChoices(inv) ==
  { [excel |-> a, github |-> b, browser |-> c] :
      a \in Read(inv, "excel"), b \in Read(inv, "github"), c \in Read(inv, "browser") }

\* Mutant: the branches tried in the order the text lists them, A before C,
\* with the GitHub match alone deciding Branch A.
ResolveOutcomesMatchFirst(u) ==
  IF u.github = "match" THEN {"KnownIssue"}
  ELSE IF u.excel = "not_entitled" THEN {"NotEntitled"}
  ELSE IF u.excel = "entitled" /\ u.github = "no_match"
    THEN IF u.browser = "reproduced" THEN {"NewIssue"} ELSE {"NewIssue", "NoBranch"}
  ELSE {"NoBranch"}

\* The branch conditions.  Branch C: the plan does not include the feature.
\* Branch A: it does, and GitHub found a match.  Branch B: it does, GitHub
\* found none, and Browser reproduced the issue; its heading and Critical
\* Rule 10 name only "no GitHub match", so without a reproduction both
\* readings stand.  In every other case no branch applies and the reply is
\* free text.
ResolveOutcomes(u) ==
  IF u.excel = "not_entitled" THEN {"NotEntitled"}
  ELSE IF u.excel = "entitled" /\ u.github = "match" THEN {"KnownIssue"}
  ELSE IF u.excel = "entitled" /\ u.github = "no_match"
    THEN IF u.browser = "reproduced" THEN {"NewIssue"} ELSE {"NewIssue", "NoBranch"}
  ELSE {"NoBranch"}

\* Mutant: a ticket is filed whenever no known issue was found.
EscalatesUnlessKnown(o) == o \in {"NewIssue", "NoBranch"}

\* Critical Rule 10: LinearAgent is invoked in Branch B only.
Escalates(o) == o = "NewIssue"

\* Branch B delegates to LinearAgent and answers the customer only after its
\* result; the other branches answer at once.
Synthesize(i, inv, u, o, room) ==
  LET res == [inv EXCEPT !.resolutions =
                Append(@, [used |-> u, outcome |-> o, trigger |-> room])]
  IN IF Escalates(o)
       THEN \E ok \in SendOutcomes : \E d \in Descriptions :
              /\ invs' = [invs EXCEPT ![i] =
                    [res EXCEPT !.reqLog = Append(@,
                       [LogOf(inv, "linear", ok) EXCEPT !.description = d])]]
              /\ reqs' = Delivered(reqs, i, inv, "linear", ok)
              /\ events' = IF ok THEN events ELSE events + 1
       ELSE /\ invs' = [invs EXCEPT ![i] = [res EXCEPT !.replies = Append(@, o)]]
            /\ UNCHANGED <<reqs, events>>

\* Mutant: the first result received is answered at once.
MaySynthesizeOnAnyResult(inv) ==
  \E r \in Roles : inv.received[r] # <<>>

\* Phase 3 entry: "once you have all 3 results", or earlier when one
\* errored out (Critical Rule 9).
MaySynthesize(inv) == HasAllResults(inv) \/ ErroredOut(inv)

\* on_message for a message of a specialist room: Phase 2, then Phase 3 when
\* its entry condition holds.
OnResult(room) ==
  /\ inbox[room] # <<>>
  /\ Cur >= 1
  /\ inbox' = [inbox EXCEPT ![room] = Tail(@)]
  /\ LET inv == Accumulate(invs[Cur], Head(inbox[room]), room)
     IN \/ /\ ~HasAllResults(inv)
           /\ invs' = [invs EXCEPT ![Cur] = inv]
           /\ UNCHANGED <<reqs, events>>
        \/ /\ MaySynthesize(inv)
           /\ Len(inv.resolutions) < MaxResolutions
           /\ \E u \in UsedChoices(inv) : \E o \in ResolveOutcomes(u) :
                Synthesize(Cur, inv, u, o, room)
  /\ UNCHANGED <<world, customers, pc, handled>>
  /\ UNCHANGED sideVars

\* on_message for the LinearAgent result: "respond to the user".
OnTicketResult ==
  /\ inbox["linear"] # <<>>
  /\ Cur >= 1
  /\ inbox' = [inbox EXCEPT !["linear"] = Tail(@)]
  /\ invs' = [invs EXCEPT ![Cur].replies = Append(@, "NewIssue")]
  /\ UNCHANGED <<world, customers, reqs, pc, events, handled>>
  /\ UNCHANGED sideVars

\* ------------------------------------------------ deliveries of the platform
\* A task that was already answered is answered once more in its room: the
\* same task_result again, or a second one that says something else.
DeliverAgain(room) ==
  /\ events < MaxEvents
  /\ \E i \in 1..Cur : \E k \in 1..Len(invs[i].received[room]) : \E v \in Vals(room) :
       inbox' = [inbox EXCEPT ![room] =
                   Append(@, [invs[i].received[room][k] EXCEPT !.val = v])]
  /\ events' = events + 1
  /\ UNCHANGED <<world, customers, reqs, invs, pc, handled>>
  /\ UNCHANGED sideVars

\* A task_result whose task_id no request carried is posted in a room.
DeliverOrphan(room) ==
  /\ events < MaxEvents
  /\ Cur >= 1
  /\ \E v \in Vals(room) :
       inbox' = [inbox EXCEPT ![room] =
                   Append(@, [task_id |-> 0, val |-> v, room |-> room, origin |-> 0])]
  /\ events' = events + 1
  /\ UNCHANGED <<world, customers, reqs, invs, pc, handled>>
  /\ UNCHANGED sideVars

Next ==
  \/ BeginDispatch
  \/ Acknowledge
  \/ SendRequest
  \/ \E room \in SpecialistRooms : SpecialistResponds(room)
  \/ \E room \in SpecialistRooms : SpecialistIgnores(room)
  \/ \E room \in SpecialistRooms : SpecialistSilent(room)
  \/ \E room \in SpecialistRooms : DeliverOther(room)
  \/ \E room \in Roles : OnResult(room)
  \/ OnTicketResult
  \/ \E room \in Roles : DeliverAgain(room)
  \/ \E room \in Roles : DeliverOrphan(room)

Spec == Init /\ [][Next]_vars

\* ====================================================================
\* Timing data of a task_result (the Timing section of a specialist prompt)
\* ====================================================================
\* started_at is one of 0, 500, ..., 500 * MaxStart milliseconds.
MaxStart == 9

\* A tool call takes up to MaxToolHalfSeconds half seconds.
MaxToolHalfSeconds == 3

StartTimes == {500 * n : n \in 0..MaxStart}

\* How long the tool call and the formatting of its result take, in ms.
ToolMillis == {0, 1} \cup {500 * n : n \in 1..MaxToolHalfSeconds}

\* delay_range of each specialist, in seconds.
DelayRange(room) ==
  CASE room = "excel"   -> <<1, 3>>
    [] room = "github"  -> <<2, 5>>
    [] room = "browser" -> <<5, 10>>
    [] room = "linear"  -> <<2, 4>>

\* completed_at - started_at in ms.  BrowserAgent: "This should be
\* {min_delay}-{max_delay} seconds after started_at"; the others: "after
\* the tool call completes and you have formatted the result".
Elapsed(room) ==
  IF room = "browser"
    THEN {1000 * d : d \in DelayRange(room)[1]..DelayRange(room)[2]}
    ELSE ToolMillis

\* Mutant: the difference is given in whole seconds.
ProcessingSeconds(started_at, completed_at) == (completed_at - started_at) \div 1000

\* "processing_ms: The actual difference in milliseconds between started_at
\* and completed_at."
ProcessingMs(started_at, completed_at) == completed_at - started_at

\* The specialist of a room fills in the timing data of its task_result
\* (Rule 3: "Always include timing data").
StampResult(room) ==
  /\ timing.room = "none"
  /\ \E e \in Elapsed(room) :
       timing' = [ room          |-> room,
                   started_at    |-> timing.started_at,
                   completed_at  |-> timing.started_at + e,
                   processing_ms |-> ProcessingMs(timing.started_at,
                                                  timing.started_at + e) ]
  /\ UNCHANGED <<mainVars, config, setup, adapter, graph, creds, bridge, demo, listener, envfile>>

\* A world for the specifications in which no investigation runs.
NoWorld == [r \in Roles |-> "error"]

InitTiming ==
  /\ world = NoWorld
  /\ NoMessages
  /\ timing \in {[NoTiming EXCEPT !.started_at = t] : t \in StartTimes}
  /\ config = NoConfig
  /\ setup = NoSetup
  /\ adapter = NoAdapter
  /\ graph = NoGraph
  /\ creds = NoCreds
  /\ bridge = NoBridge
  /\ demo = NoDemo
  /\ listener = NoListener
  /\ envfile = NoEnvFile

NextTiming == \E room \in SpecialistRooms : StampResult(room)

SpecTiming == InitTiming /\ [][NextTiming]_vars

\* ====================================================================
\* Room configuration and the cross-room tools
\* ====================================================================
\* A specialist name is made of at most MaxChunks pieces.
MaxChunks == 2

\* At most MaxSent tool calls are followed.
MaxSent == 1

Keys == {RoomKeys[n] : n \in 1..Len(RoomKeys)}

EnvVar(key) ==
  CASE key = "user"    -> "SUPPORT_USER_ROOM_ID"
    [] key = "excel"   -> "SUPPORT_EXCEL_ROOM_ID"
    [] key = "github"  -> "SUPPORT_GITHUB_ROOM_ID"
    [] key = "browser" -> "SUPPORT_BROWSER_ROOM_ID"
    [] key = "linear"  -> "SUPPORT_LINEAR_ROOM_ID"

\* A room id the platform gave to the room of a key.
RoomId(key) ==
  CASE key = "user"    -> "room-user-001"
    [] key = "excel"   -> "room-excel-002"
    [] key = "github"  -> "room-github-003"
    [] key = "browser" -> "room-browser-004"
    [] key = "linear"  -> "room-linear-005"

\* An environment variable is unset, set to the empty string or set to a
\* room id.
Environments == {e \in [Keys -> {"unset", ""} \cup {RoomId(k) : k \in Keys}] :
                   \A k \in Keys : e[k] \in {"unset", "", RoomId(k)}}

\* os.environ.get(env_var, "")
Environ(env, key) == IF env[key] = "unset" THEN "" ELSE env[key]

\* The loop of from_env: "if not val: missing.append(env_var)".
Missing(env) ==
  LET keys == SelectSeq(RoomKeys, LAMBDA k : Environ(env, k) = "")
  IN [n \in 1..Len(keys) |-> EnvVar(keys[n])]

\* Mutant: the first missing variable raises at once.
FromEnvFirstMissing(env) ==
  IF Missing(env) # <<>>
    THEN [raised |-> "ValueError", names |-> <<Missing(env)[1]>>, rooms |-> [k \in {} |-> ""]]
    ELSE [raised |-> "none", names |-> <<>>, rooms |-> [k \in Keys |-> Environ(env, k)]]

\* SupportRoomConfig.from_env: ValueError naming the missing variables, or
\* the configuration.
FromEnv(env) ==
  IF Missing(env) # <<>>
    THEN [raised |-> "ValueError", names |-> Missing(env), rooms |-> [k \in {} |-> ""]]
    ELSE [raised |-> "none", names |-> <<>>, rooms |-> [k \in Keys |-> Environ(env, k)]]

\* main: room_config = SupportRoomConfig.from_env()
LoadConfig ==
  /\ config.loaded.raised = "pending"
  /\ config' = [config EXCEPT !.loaded = FromEnv(config.env)]
  /\ UNCHANGED <<mainVars, timing, setup, adapter, graph, creds, bridge, demo, listener, envfile>>

\* The pieces specialist names are made of.
Chunks == {"Excel", "EXCEL", "excel", "GitHub", "github", "Browser", "browser",
           "Linear", "linear", "Agent", "Support", "Unknown"}

Names == UNION {[1..n -> Chunks] : n \in 1..MaxChunks}

\* str.lower on a piece.
Lower(chunk) ==
  CASE chunk \in {"Excel", "EXCEL", "excel"} -> "excel"
    [] chunk \in {"GitHub", "github"}        -> "github"
    [] chunk \in {"Browser", "browser"}      -> "browser"
    [] chunk \in {"Linear", "linear"}        -> "linear"
    [] chunk = "Agent"                       -> "agent"
    [] chunk = "Support"                     -> "support"
    [] chunk = "Unknown"                     -> "unknown"

\* "keyword in name" for a name already in lower case.
Contains(name, keyword) == \E n \in 1..Len(name) : name[n] = keyword

\* Mutant: the keywords tried in the opposite order.
SpecialistRoomForReversed(rooms, specialist) ==
  LET name == [n \in 1..Len(specialist) |-> Lower(specialist[n])]
  IN IF Contains(name, "linear") THEN rooms["linear"]
     ELSE IF Contains(name, "browser") THEN rooms["browser"]
     ELSE IF Contains(name, "github") THEN rooms["github"]
     ELSE IF Contains(name, "excel") THEN rooms["excel"]
     ELSE "None"

\* SupportRoomConfig.specialist_room_for
SpecialistRoomFor(rooms, specialist) ==
  LET name == [n \in 1..Len(specialist) |-> Lower(specialist[n])]
  IN IF Contains(name, "excel") THEN rooms["excel"]
     ELSE IF Contains(name, "github") THEN rooms["github"]
     ELSE IF Contains(name, "browser") THEN rooms["browser"]
     ELSE IF Contains(name, "linear") THEN rooms["linear"]
     ELSE "None"

\* A caller asks the configuration for the room of a specialist.
LookupRoom ==
  /\ config.loaded.raised = "none"
  /\ config.lookup = <<>>
  /\ \E specialist \in Names :
       config' = [config EXCEPT !.lookup =
          << [ name |-> specialist,
               room |-> SpecialistRoomFor(config.loaded.rooms, specialist) ] >>]
  /\ UNCHANGED <<mainVars, timing, setup, adapter, graph, creds, bridge, demo, listener, envfile>>

\* The cross-room tools, named by the room they are for.
Tools == Keys

\* The default of a tool's mentions parameter; send_to_user_room has none
\* and passes "".
DefaultMentions(tool) == IF tool = "user" THEN <<>> ELSE <<AgentOf(tool)>>

\* Values the caller can pass for mentions, as the parts between commas.
MentionArgs(tool) ==
  IF tool = "user" THEN {<<>>}
  ELSE {<<AgentOf(tool)>>, <<" ", AgentOf(tool)>>, <<"UIObserver">>, <<"">>}

\* str.strip on a part.
Strip(part) == IF part = " " THEN "" ELSE part

\* [m.strip() for m in mentions_str.split(",") if m.strip()]
ParseMentions(parts) ==
  SelectSeq([n \in 1..Len(parts) |-> Strip(parts[n])], LAMBDA m : m # "")

\* Mutant: every tool writes to the user room.
ToolRoomUser(rooms, tool) == rooms["user"]

\* send_to_<tool>_room passes room_config.<tool>_room_id to _send_to_room.
ToolRoom(rooms, tool) == rooms[tool]

\* A cross-room tool is called, with or without a mentions argument;
\* _send_to_room delivers the message or catches the exception of a failed
\* send.
CallTool(tool) ==
  /\ config.loaded.raised = "none"
  /\ Len(config.sent) < MaxSent
  /\ \E given \in BOOLEAN : \E arg \in MentionArgs(tool) : \E ok \in BOOLEAN :
       config' = [config EXCEPT !.sent = Append(@,
          [ tool      |-> tool,
            given     |-> given /\ tool # "user",
            delivered |-> ok,
            room      |-> IF ok THEN ToolRoom(config.loaded.rooms, tool) ELSE "none",
            mentions  |-> ParseMentions(IF given /\ tool # "user"
                                          THEN arg ELSE DefaultMentions(tool)) ])]
  /\ UNCHANGED <<mainVars, timing, setup, adapter, graph, creds, bridge, demo, listener, envfile>>

InitConfig ==
  /\ world = NoWorld
  /\ NoMessages
  /\ timing = NoTiming
  /\ config \in {[NoConfig EXCEPT !.env = e] : e \in Environments}
  /\ setup = NoSetup
  /\ adapter = NoAdapter
  /\ graph = NoGraph
  /\ creds = NoCreds
  /\ bridge = NoBridge
  /\ demo = NoDemo
  /\ listener = NoListener
  /\ envfile = NoEnvFile

NextConfig ==
  \/ LoadConfig
  \/ LookupRoom
  \/ \E tool \in Tools : CallTool(tool)

SpecConfig == InitConfig /\ [][NextConfig]_vars

\* ====================================================================
\* The setup script: registration of the agents, rooms, participants
\* ====================================================================
\* The one-time keys the platform can issue.
ApiKeys == {"thnv_a_1", "thnv_a_2"}

\* The id the platform gives to an agent.
AgentId(a) ==
  CASE a = "support_orchestrator" -> "agent-1"
    [] a = "excel"                -> "agent-2"
    [] a = "github_support"       -> "agent-3"
    [] a = "browser"              -> "agent-4"
    [] a = "linear"               -> "agent-5"

\* ROOM_TOPOLOGY, in its order.
RoomTopology == <<"R-user-support", "R-excel", "R-github-support", "R-browser", "R-linear">>

\* What agent_config.yaml can hold before the run: nothing, or the ids and
\* keys of an earlier run.
OldEntry == [agent_id |-> "agent-0", api_key |-> "thnv_a_0"]

\* Step 1, one turn of the loop: register_agent returns the agent's id and
\* its one-time key, which go into registered_agents; or the request fails
\* or the response is incomplete, and setup exits.
RegisterAgent ==
  /\ setup.pc = "register"
  /\ LET a == AgentDefs[setup.agent]
     IN \/ \E key \in ApiKeys :
             setup' = [setup EXCEPT
                !.platform[a] = key,
                !.memory[a] = [agent_id |-> AgentId(a), api_key |-> key],
                !.agent = @ + 1,
                !.pc = IF setup.agent = Len(AgentDefs) THEN "save" ELSE "register"]
        \/ setup' = [setup EXCEPT !.pc = "exited"]
  /\ UNCHANGED <<mainVars, timing, config, adapter, graph, creds, bridge, demo, listener, envfile>>

\* _save_agent_config: agent_id and api_key of every agent in
\* registered_agents are written, the other entries are kept.
SavedConfig(file, agents) ==
  [a \in AgentKeys |-> IF agents[a] # NoEntry THEN agents[a] ELSE file[a]]

\* Step 2, after the loop of Step 1 has ended.
SaveAgentConfig ==
  /\ setup.pc = "save"
  /\ setup' = [setup EXCEPT !.file = SavedConfig(setup.file, setup.memory),
                            !.pc = "rooms"]
  /\ UNCHANGED <<mainVars, timing, config, adapter, graph, creds, bridge, demo, listener, envfile>>

\* Step 3, one turn of the loop: a room is created, or setup exits.
CreateRoom ==
  /\ setup.pc = "rooms"
  /\ \/ setup' = [setup EXCEPT
            !.room = IF setup.room = Len(RoomTopology) THEN 1 ELSE @ + 1,
            !.pc = IF setup.room = Len(RoomTopology) THEN "participants" ELSE "rooms"]
     \/ setup' = [setup EXCEPT !.pc = "exited"]
  /\ UNCHANGED <<mainVars, timing, config, adapter, graph, creds, bridge, demo, listener, envfile>>

\* Step 4, the participants of one room: added, or setup exits.
AddParticipants ==
  /\ setup.pc = "participants"
  /\ \/ setup' = [setup EXCEPT
            !.room = IF setup.room = Len(RoomTopology) THEN 1 ELSE @ + 1,
            !.pc = IF setup.room = Len(RoomTopology) THEN "env" ELSE "participants"]
     \/ setup' = [setup EXCEPT !.pc = "exited"]
  /\ UNCHANGED <<mainVars, timing, config, adapter, graph, creds, bridge, demo, listener, envfile>>

\* Step 5: the room ids are written to .env.
SaveRoomIds ==
  /\ setup.pc = "env"
  /\ setup' = [setup EXCEPT !.pc = "done"]
  /\ UNCHANGED <<mainVars, timing, config, adapter, graph, creds, bridge, demo, listener, envfile>>

InitSetup ==
  /\ world = NoWorld
  /\ NoMessages
  /\ timing = NoTiming
  /\ config = NoConfig
  /\ setup \in {[NoSetup EXCEPT !.file = [a \in AgentKeys |-> e]] : e \in {NoEntry, OldEntry}}
  /\ adapter = NoAdapter
  /\ graph = NoGraph
  /\ creds = NoCreds
  /\ bridge = NoBridge
  /\ demo = NoDemo
  /\ listener = NoListener
  /\ envfile = NoEnvFile

NextSetup ==
  \/ RegisterAgent
  \/ SaveAgentConfig
  \/ CreateRoom
  \/ AddParticipants
  \/ SaveRoomIds

SpecSetup == InitSetup /\ [][NextSetup]_vars

\* ---------------------------------------------------------------------------
\* SpecAdapter: concurrent on_message calls on the orchestrator's adapter
\* ---------------------------------------------------------------------------

\* The adapter as configured: its additional tools and its system prompt.
ConfiguredAdapter == [NoAdapter EXCEPT !.system_prompt = <<"prompt">>]

\* The tools _build_cross_room_tools builds, bound to the room of the call.
CrossRoomTools(room) ==
  [i \in 1..Len(RoomKeys) |-> [tool |-> "send_to_" \o RoomKeys[i] \o "_room", bound |-> room]]

\* The sections on_message merges into the system prompt: one for a non-empty
\* participants_msg, one for a non-empty contacts_msg.
Extras(participants_msg, contacts_msg) ==
  (IF participants_msg THEN <<"participants">> ELSE <<>>) \o
  (IF contacts_msg THEN <<"contacts">> ELSE <<>>)

\* on_message up to its await: the call saves additional_tools and
\* _system_prompt as it finds them and installs the patched values.
EnterOnMessage(c, room, participants_msg, contacts_msg) ==
  /\ world = NoWorld
  /\ adapter.calls[c].pc = "idle"
  /\ \A d \in Calls : d < c => adapter.calls[d].pc # "idle"
  /\ \A d \in Calls : adapter.calls[d].pc = "running" => adapter.calls[d].room # room
  /\ LET extras == Extras(participants_msg, contacts_msg) IN
     adapter' = [adapter EXCEPT
       !.additional_tools = adapter.additional_tools \o CrossRoomTools(room),
       !.system_prompt = IF extras # <<>> THEN adapter.system_prompt \o extras
                         ELSE adapter.system_prompt,
       !.calls[c] = [pc |-> "running", room |-> room,
                     original_tools |-> adapter.additional_tools,
                     original_prompt |-> adapter.system_prompt]]
  /\ UNCHANGED <<mainVars, timing, config, setup, graph, creds, bridge, demo, listener, envfile>>

\* The parent handler returns or raises: the finally block restores what the
\* call saved on entry.
ReturnOnMessage(c, raised) ==
  /\ adapter.calls[c].pc = "running"
  /\ adapter' = [adapter EXCEPT
       !.additional_tools = adapter.calls[c].original_tools,
       !.system_prompt = adapter.calls[c].original_prompt,
       !.calls[c].pc = IF raised THEN "raised" ELSE "returned"]
  /\ UNCHANGED <<mainVars, timing, config, setup, graph, creds, bridge, demo, listener, envfile>>

InitAdapter ==
  /\ world = NoWorld
  /\ NoMessages
  /\ timing = NoTiming
  /\ config = NoConfig
  /\ setup = NoSetup
  /\ adapter = ConfiguredAdapter
  /\ graph = NoGraph
  /\ creds = NoCreds
  /\ bridge = NoBridge
  /\ demo = NoDemo
  /\ listener = NoListener
  /\ envfile = NoEnvFile

NextAdapter ==
  \/ \E c \in Calls, room \in {"user"} \cup Roles, p \in BOOLEAN, k \in BOOLEAN :
       EnterOnMessage(c, room, p, k)
  \/ \E c \in Calls, raised \in BOOLEAN : ReturnOnMessage(c, raised)

SpecAdapter == InitAdapter /\ [][NextAdapter]_vars

\* ---------------------------------------------------------------------------
\* SpecLimit: concurrent message handlings of one specialist agent
\* ---------------------------------------------------------------------------

\* The recursion limit LangGraph applies when the config names none, and the
\* limit the wrapper injects.
DefaultRecursionLimit == 25

InjectedRecursionLimit == 8

\* The configs a caller passes to astream_events: None, one without a
\* recursion limit, and one that sets its own.
CallerLimit == 5

CallerConfigs == {"none", "empty", "limit"}

\* The limit the graph runs with when astream_events, as installed, is called
\* with the caller's config: every wrapper on the way to the original function
\* applies config.setdefault("recursion_limit", 8).
LimitedAstream(installed, cfg) ==
  IF cfg = "limit" THEN CallerLimit
  ELSE IF installed # <<>> THEN InjectedRecursionLimit
  ELSE DefaultRecursionLimit

\* _on_message_with_limit up to its await: with a static graph the handling
\* saves graph.astream_events as it finds it and installs its wrapper around
\* it; without one it installs nothing.
EnterHandling(c) ==
  /\ world = NoWorld
  /\ graph.handlings[c].pc = "idle"
  /\ \A d \in Calls : d < c => graph.handlings[d].pc # "idle"
  /\ graph' = [graph EXCEPT
       !.astream_events = IF graph.static_graph THEN <<c>> \o graph.astream_events
                          ELSE graph.astream_events,
       !.handlings[c] = [NoHandling EXCEPT !.pc = "running",
                                           !.orig_astream = graph.astream_events]]
  /\ UNCHANGED <<mainVars, timing, config, setup, adapter, creds, bridge, demo, listener, envfile>>

\* The parent handler runs the graph: it calls graph.astream_events as it is
\* installed at that moment.
StreamEvents(c, cfg) ==
  /\ graph.handlings[c].pc = "running"
  /\ graph' = [graph EXCEPT
       !.handlings[c].pc = "streamed",
       !.handlings[c].recursion_limit = LimitedAstream(graph.astream_events, cfg)]
  /\ UNCHANGED <<mainVars, timing, config, setup, adapter, creds, bridge, demo, listener, envfile>>

\* The parent handler returns or raises: with a static graph the finally block
\* puts back what the handling saved on entry.
ReturnHandling(c) ==
  /\ graph.handlings[c].pc \in {"running", "streamed"}
  /\ graph' = [graph EXCEPT
       !.astream_events = IF graph.static_graph THEN graph.handlings[c].orig_astream
                          ELSE graph.astream_events,
       !.handlings[c].pc = "returned"]
  /\ UNCHANGED <<mainVars, timing, config, setup, adapter, creds, bridge, demo, listener, envfile>>

InitLimit ==
  /\ world = NoWorld
  /\ NoMessages
  /\ timing = NoTiming
  /\ config = NoConfig
  /\ setup = NoSetup
  /\ adapter = NoAdapter
  /\ graph \in {[NoGraph EXCEPT !.static_graph = g] : g \in BOOLEAN}
  /\ creds = NoCreds
  /\ bridge = NoBridge
  /\ demo = NoDemo
  /\ listener = NoListener
  /\ envfile = NoEnvFile

NextLimit ==
  \/ \E c \in Calls : EnterHandling(c)
  \/ \E c \in Calls, cfg \in CallerConfigs : StreamEvents(c, cfg)
  \/ \E c \in Calls : ReturnHandling(c)

SpecLimit == InitLimit /\ [][NextLimit]_vars

\* ---------------------------------------------------------------------------
\* SpecCreds: a specialist resolves its credentials
\* ---------------------------------------------------------------------------

\* _AGENT_CONFIG_KEYS: the agent_config.yaml key of each agent name.
AgentConfigKeys ==
  [ExcelAgent |-> "excel", GitHubSupportAgent |-> "github_support",
   BrowserAgent |-> "browser", LinearAgent |-> "linear",
   SupportOrchestrator |-> "support_orchestrator"]

SpecialistNames == {"ExcelAgent", "GitHubSupportAgent", "BrowserAgent", "LinearAgent"}

Credential(owner, from) == [owner |-> owner, from |-> from]

\* What the three sources can hold for a specialist. The process environment
\* and the specialist's agent_config.yaml entry hold its own credentials or
\* nothing; the .env file holds what the setup script and the operator wrote:
\* the orchestrator's THENVOI_AGENT_ID, and possibly its THENVOI_API_KEY.
ProcessEnvironments(name) ==
  [agent_id : {Unset, Credential(AgentConfigKeys[name], "environ")},
   api_key : {Unset, Credential(AgentConfigKeys[name], "environ")},
   urls : BOOLEAN]

DotenvFiles ==
  [agent_id : {Unset, Credential("support_orchestrator", "dotenv")},
   api_key : {Unset, Credential("support_orchestrator", "dotenv")},
   urls : BOOLEAN]

YamlEntries(name) ==
  [agent_id : {Unset, Credential(AgentConfigKeys[name], "yaml")},
   api_key : {Unset, Credential(AgentConfigKeys[name], "yaml")}]

\* load_dotenv: a variable of the .env file is put into os.environ unless the
\* process environment already sets it.
LoadDotenv(environ, dotenv) ==
  [agent_id |-> IF environ.agent_id # Unset THEN environ.agent_id ELSE dotenv.agent_id,
   api_key |-> IF environ.api_key # Unset THEN environ.api_key ELSE dotenv.api_key,
   urls |-> environ.urls \/ dotenv.urls]

\* _load_env: the .env file is loaded into os.environ first; THENVOI_AGENT_ID
\* and THENVOI_API_KEY are read from os.environ; the agent_config.yaml entry
\* fills in what is still empty; missing credentials or URLs raise ValueError.
LoadEnv(environ, dotenv, yaml) ==
  LET os_environ == LoadDotenv(environ, dotenv)
      agent_id == IF os_environ.agent_id # Unset THEN os_environ.agent_id ELSE yaml.agent_id
      api_key == IF os_environ.api_key # Unset THEN os_environ.api_key ELSE yaml.api_key
  IN IF agent_id = Unset \/ api_key = Unset
       THEN [raised |-> "ValueError", agent_id |-> Unset, api_key |-> Unset]
     ELSE IF ~os_environ.urls
       THEN [raised |-> "ValueError", agent_id |-> Unset, api_key |-> Unset]
     ELSE [raised |-> "no", agent_id |-> agent_id, api_key |-> api_key]

\* create_agent calls _load_env.
ResolveCredentials ==
  /\ creds.agent_name # "none"
  /\ creds.result.raised = "pending"
  /\ creds' = [creds EXCEPT !.result = LoadEnv(creds.environ, creds.dotenv, creds.yaml)]
  /\ UNCHANGED <<mainVars, timing, config, setup, adapter, graph, bridge, demo, listener, envfile>>

InitCreds ==
  /\ world = NoWorld
  /\ NoMessages
  /\ timing = NoTiming
  /\ config = NoConfig
  /\ setup = NoSetup
  /\ adapter = NoAdapter
  /\ graph = NoGraph
  /\ bridge = NoBridge
  /\ demo = NoDemo
  /\ listener = NoListener
  /\ envfile = NoEnvFile
  /\ \E name \in SpecialistNames :
       creds \in {[NoCreds EXCEPT !.agent_name = name, !.environ = e, !.dotenv = d, !.yaml = y] :
                    e \in ProcessEnvironments(name), d \in DotenvFiles, y \in YamlEntries(name)}

NextCreds == ResolveCredentials

SpecCreds == InitCreds /\ [][NextCreds]_vars

\* ---------------------------------------------------------------------------
\* SpecBridge: the bridge server broadcasts queued events to its UI clients
\* ---------------------------------------------------------------------------

\* event_queue.get(): the oldest event of the queue.
NextEventNewest(queue) == queue[Len(queue)]

NextEvent(queue) == Head(queue)

\* A producer (the listener or the demo runner) puts an event on the queue;
\* events are numbered in the order they are put.
PutEvent ==
  /\ bridge.started
  /\ bridge.put < MaxQueued
  /\ bridge' = [bridge EXCEPT !.put = bridge.put + 1,
                              !.queue = Append(bridge.queue, bridge.put + 1)]
  /\ UNCHANGED <<mainVars, timing, config, setup, adapter, graph, creds, demo, listener, envfile>>

\* handler: a UI client connects and its websocket is added to _clients.
Connect(c) ==
  /\ bridge.started
  /\ c \notin bridge.accepted
  /\ \A d \in Clients : d < c => d \in bridge.accepted
  /\ bridge' = [bridge EXCEPT !.clients = bridge.clients \cup {c},
                              !.accepted = bridge.accepted \cup {c}]
  /\ UNCHANGED <<mainVars, timing, config, setup, adapter, graph, creds, demo, listener, envfile>>

\* The connection of a UI client closes; from now on a send to it raises
\* ConnectionClosed.
CloseConnection(c) ==
  /\ c \in bridge.clients
  /\ c \notin bridge.closed
  /\ bridge' = [bridge EXCEPT !.closed = bridge.closed \cup {c}]
  /\ UNCHANGED <<mainVars, timing, config, setup, adapter, graph, creds, demo, listener, envfile>>

\* handler: the handler of a closed connection leaves its receive loop and
\* discards the websocket from _clients.
HandlerExit(c) ==
  /\ c \in bridge.clients
  /\ c \in bridge.closed
  /\ bridge' = [bridge EXCEPT !.clients = bridge.clients \ {c}]
  /\ UNCHANGED <<mainVars, timing, config, setup, adapter, graph, creds, demo, listener, envfile>>

\* broadcast_loop from event_queue.get() to its first await: with no client
\* the event is dropped; otherwise the iteration over _clients begins and the
\* send to its first websocket is awaited.
GetEvent ==
  /\ bridge.loop.pc = "get"
  /\ bridge.queue # <<>>
  /\ LET event == NextEvent(bridge.queue)
         queue == SelectSeq(bridge.queue, LAMBDA e : e # event) IN
     IF bridge.clients = {}
       THEN bridge' = [bridge EXCEPT !.queue = queue,
                                     !.discarded = bridge.discarded \cup {event}]
       ELSE \E ws \in bridge.clients :
              bridge' = [bridge EXCEPT
                !.queue = queue,
                !.loop = [pc |-> "send", event |-> event,
                          si_used |-> Cardinality(bridge.clients),
                          initial |-> bridge.clients, visited |-> {ws},
                          dead |-> {}, ws |-> ws]]
  /\ UNCHANGED <<mainVars, timing, config, setup, adapter, graph, creds, demo, listener, envfile>>

\* broadcast_loop from the end of one awaited send to its next await. The send
\* delivers the event, or raises ConnectionClosed and the websocket is noted
\* as dead. The set iterator is then advanced: it raises RuntimeError, which
\* nothing catches, when the size of _clients differs from the size at the
\* start of the iteration; otherwise it yields a websocket not yet visited
\* (one added during the iteration may be passed over) or ends, and at the end
\* the dead websockets are discarded and the loop waits on the queue again.
SendDone ==
  /\ bridge.loop.pc = "send"
  /\ LET loop == bridge.loop
         ws == loop.ws
         dead == IF ws \in bridge.closed THEN loop.dead \cup {ws} ELSE loop.dead
         received == IF ws \in bridge.closed THEN bridge.received
                     ELSE [bridge.received EXCEPT ![ws] = Append(@, loop.event)]
         remaining == bridge.clients \ loop.visited
     IN IF Cardinality(bridge.clients) # loop.si_used
          THEN bridge' = [bridge EXCEPT !.received = received,
                                        !.loop = [loop EXCEPT !.pc = "crashed", !.dead = dead]]
          ELSE \/ \E next \in remaining :
                    bridge' = [bridge EXCEPT
                      !.received = received,
                      !.loop = [loop EXCEPT !.dead = dead, !.ws = next,
                                            !.visited = loop.visited \cup {next}]]
               \/ /\ remaining \cap loop.initial = {}
                  /\ bridge' = [bridge EXCEPT !.received = received,
                                              !.clients = bridge.clients \ dead,
                                              !.loop = NoBroadcast]
  /\ UNCHANGED <<mainVars, timing, config, setup, adapter, graph, creds, demo, listener, envfile>>

InitBridge ==
  /\ world = NoWorld
  /\ NoMessages
  /\ timing = NoTiming
  /\ config = NoConfig
  /\ setup = NoSetup
  /\ adapter = NoAdapter
  /\ graph = NoGraph
  /\ creds = NoCreds
  /\ bridge = [NoBridge EXCEPT !.started = TRUE]
  /\ demo = NoDemo
  /\ listener = NoListener
  /\ envfile = NoEnvFile

NextBridge ==
  \/ PutEvent
  \/ \E c \in Clients : Connect(c)
  \/ \E c \in Clients : CloseConnection(c)
  \/ \E c \in Clients : HandlerExit(c)
  \/ GetEvent
  \/ SendDone

SpecBridge == InitBridge /\ [][NextBridge]_vars

\* ---------------------------------------------------------------------------
\* SpecDemo: start_demo and stop_demo commands drive the demo playback
\* ---------------------------------------------------------------------------

MaxCommands == 4

MaxNow == 6

\* _DEMO_EVENTS: the offsets "t" of the scripted events, in units of 500 ms,
\* shortened to three events; the completion is scheduled 1500 ms after the
\* last one.
DemoEvents == <<0, 1, 3>>

CompletionDelay == 3

\* An entry of the event queue as the demo runner puts it: the playback it
\* belongs to (0 for none), what it is, and for a scripted event its place in
\* the script.
Entry(playback, type, index) == [playback |-> playback, type |-> type, index |-> index]

\* The tasks start() creates: one per scripted event and one for the
\* completion, each sleeping until its offset from now.
ScheduledTasks(playback, now) ==
  {[playback |-> playback, type |-> k, due |-> now + DemoEvents[k]] : k \in 1..Len(DemoEvents)}
    \cup {[playback |-> playback, type |-> 0,
           due |-> now + DemoEvents[Len(DemoEvents)] + CompletionDelay]}

\* stop(): every task is cancelled and the list is cleared.
TasksAfterStopKept(tasks) == tasks

TasksAfterStop(tasks) == {}

\* _handle_client_message, action start_demo: refused in live mode; otherwise
\* DemoRunner.start, which returns at once when a playback is running and else
\* enqueues bridge_status and demo_started and creates the tasks.
StartDemo ==
  /\ Len(demo.commands) < MaxCommands
  /\ LET playback == demo.playback + 1
         after == IF demo.is_live_mode \/ demo.running THEN demo
                  ELSE [demo EXCEPT
                         !.running = TRUE,
                         !.playback = playback,
                         !.log = demo.log \o <<Entry(playback, "bridge_status", 0),
                                               Entry(playback, "demo_started", 0)>>,
                         !.tasks = demo.tasks \cup ScheduledTasks(playback, demo.now)]
     IN demo' = [after EXCEPT !.commands =
                   Append(demo.commands, [action |-> "start_demo", running |-> demo.running,
                                          playback |-> demo.playback,
                                          before |-> Len(demo.log), after |-> Len(after.log)])]
  /\ UNCHANGED <<mainVars, timing, config, setup, adapter, graph, creds, bridge, listener, envfile>>

\* _handle_client_message, action stop_demo: DemoRunner.stop, then demo_stopped
\* is enqueued.
StopDemo ==
  /\ Len(demo.commands) < MaxCommands
  /\ demo' = [demo EXCEPT
       !.running = FALSE,
       !.tasks = TasksAfterStop(demo.tasks),
       !.log = Append(demo.log, Entry(0, "demo_stopped", 0)),
       !.commands = Append(demo.commands, [action |-> "stop_demo", running |-> demo.running,
                                           playback |-> demo.playback,
                                           before |-> Len(demo.log), after |-> Len(demo.log) + 1])]
  /\ UNCHANGED <<mainVars, timing, config, setup, adapter, graph, creds, bridge, listener, envfile>>

\* The sleep of a task ends; timers fire in the order of their deadlines, and
\* tasks with one deadline in the order they were created.
Due(task) ==
  /\ task \in demo.tasks
  /\ task.due <= demo.now
  /\ \A other \in demo.tasks :
       /\ other.due >= task.due
       /\ (other.due = task.due /\ other.playback = task.playback /\ other.type # 0) =>
            (task.type # 0 /\ other.type >= task.type)

\* _schedule_event after its sleep: the scripted event is enqueued unless the
\* runner is not running.
ScheduleEvent(task) ==
  /\ Due(task)
  /\ task.type # 0
  /\ demo' = [demo EXCEPT
       !.tasks = demo.tasks \ {task},
       !.log = IF demo.running THEN Append(demo.log, Entry(task.playback, "scripted", task.type))
               ELSE demo.log]
  /\ UNCHANGED <<mainVars, timing, config, setup, adapter, graph, creds, bridge, listener, envfile>>

\* _schedule_completion after its sleep: demo_complete is enqueued and the
\* runner stops running, unless it is not running already.
ScheduleCompletion(task) ==
  /\ Due(task)
  /\ task.type = 0
  /\ demo' = [demo EXCEPT
       !.tasks = demo.tasks \ {task},
       !.running = FALSE,
       !.log = IF demo.running THEN Append(demo.log, Entry(task.playback, "demo_complete", 0))
               ELSE demo.log]
  /\ UNCHANGED <<mainVars, timing, config, setup, adapter, graph, creds, bridge, listener, envfile>>

\* Time passes.
Tick ==
  /\ demo.now < MaxNow
  /\ demo' = [demo EXCEPT !.now = demo.now + 1]
  /\ UNCHANGED <<mainVars, timing, config, setup, adapter, graph, creds, bridge, listener, envfile>>

InitDemo ==
  /\ world = NoWorld
  /\ NoMessages
  /\ timing = NoTiming
  /\ config = NoConfig
  /\ setup = NoSetup
  /\ adapter = NoAdapter
  /\ graph = NoGraph
  /\ creds = NoCreds
  /\ bridge = NoBridge
  /\ demo \in {[NoDemo EXCEPT !.is_live_mode = m] : m \in BOOLEAN}
  /\ listener = NoListener
  /\ envfile = NoEnvFile

NextDemo ==
  \/ StartDemo
  \/ StopDemo
  \/ \E task \in demo.tasks : ScheduleEvent(task)
  \/ \E task \in demo.tasks : ScheduleCompletion(task)
  \/ Tick

SpecDemo == InitDemo /\ [][NextDemo]_vars

\* ---------------------------------------------------------------------------
\* SpecListener: the bridge's listener turns room messages into UI events
\* ---------------------------------------------------------------------------

\* Message content as a sequence of tokens: an "@Name" mention, a run of prose
\* (no brace in it), a JSON array, or a JSON object with its protocol, type and
\* status keys. Whitespace between tokens is not written.
Token(kind) == [kind |-> kind, protocol |-> "", type |-> "", status |-> ""]

Mention == Token("mention")

Prose == Token("text")

JsonList == Token("list")

JsonObject(protocol, type, status) ==
  [kind |-> "object", protocol |-> protocol, type |-> type, status |-> status]

JsonObjects ==
  {JsonObject("orchestrator/v1", "task_request", ""),
   JsonObject("orchestrator/v1", "task_result", "success"),
   JsonObject("orchestrator/v1", "task_result", "error"),
   JsonObject("orchestrator/v1", "task_result", "partial"),
   JsonObject("orchestrator/v1", "task_progress", ""),
   JsonObject("other/v1", "task_request", "")}

\* The contents the listener is run on: an optional mention, optional material
\* before the body, an optional body, optional trailing prose.
Contents ==
  {m \o f \o b \o t :
     m \in {<<>>, <<Mention>>},
     f \in {<<>>, <<Prose>>, <<JsonObject("other/v1", "task_request", "")>>},
     b \in {<<>>, <<JsonList>>} \cup {<<o>> : o \in JsonObjects},
     t \in {<<>>, <<Prose>>}}

\* content.find("{"): the place of the first JSON object, 0 for none.
FindBrace(content) ==
  IF \E i \in 1..Len(content) : content[i].kind = "object"
    THEN CHOOSE i \in 1..Len(content) :
           /\ content[i].kind = "object"
           /\ \A j \in 1..(i - 1) : content[j].kind # "object"
    ELSE 0

\* The string handed to json.loads: content that starts with "@" is cut to
\* begin at its first "{", when it has one.
JsonStrUnstripped(content) == content

JsonStr(content) ==
  IF content # <<>> /\ content[1].kind = "mention" /\ FindBrace(content) > 0
    THEN SubSeq(content, FindBrace(content), Len(content))
    ELSE content

\* json.loads: one JSON value and nothing else, or JSONDecodeError.
Loads(json_str) ==
  IF Len(json_str) = 1 /\ json_str[1].kind \in {"object", "list"} THEN json_str[1]
  ELSE Token("JSONDecodeError")

\* _try_parse_protocol: the agent_status events the content gives rise to.
TryParseProtocol(content) ==
  LET proto == Loads(JsonStr(content)) IN
  IF proto.kind # "object" \/ proto.protocol # "orchestrator/v1" THEN <<>>
  ELSE IF proto.type = "task_request"
    THEN <<[type |-> "agent_status", message_id |-> 0, status |-> "working"]>>
  ELSE IF proto.type = "task_result"
    THEN <<[type |-> "agent_status", message_id |-> 0,
            status |-> IF proto.status = "success" THEN "done" ELSE "error"]>>
  ELSE <<>>

\* _process_message: messages of UIObserver and messages that are not text are
\* skipped; otherwise a "message" event is queued, then what
\* _try_parse_protocol makes of the content.
ProcessMessage(message_id, payload) ==
  IF payload.sender_name = "UIObserver" THEN <<>>
  ELSE IF payload.message_type \notin {"text", ""} THEN <<>>
  ELSE <<[type |-> "message", message_id |-> message_id, status |-> ""]>>
         \o TryParseProtocol(payload.content)

\* The content of the two messages: the second is the first addressed with a
\* leading mention.
ContentOf(message_id) ==
  IF message_id = 1 THEN listener.content ELSE <<Mention>> \o listener.content

Senders == {"UIObserver", "ExcelAgent"}

MessageTypes == {"text", "", "event"}

\* The platform delivers an event for a room message: message_created to the
\* channel callback, message_updated to the per-event handler, which hands it
\* to the same callback. A message has one sender, type and content.
Deliver(message_id, event, sender_name, message_type) ==
  /\ listener.content # <<>>
  /\ <<message_id, event>> \notin listener.delivered
  /\ LET known == listener.payloads[message_id]
         payload == IF known # NoPayload THEN known
                    ELSE [sender_name |-> sender_name, message_type |-> message_type,
                          content |-> ContentOf(message_id)]
     IN /\ known # NoPayload =>
             (sender_name = known.sender_name /\ message_type = known.message_type)
        /\ listener' = [listener EXCEPT
             !.payloads[message_id] = payload,
             !.delivered = listener.delivered \cup {<<message_id, event>>},
             !.queue = listener.queue \o ProcessMessage(message_id, payload)]
  /\ UNCHANGED <<mainVars, timing, config, setup, adapter, graph, creds, bridge, demo, envfile>>

MessageCreated(message_id, sender_name, message_type) ==
  Deliver(message_id, "message_created", sender_name, message_type)

MessageUpdated(message_id, sender_name, message_type) ==
  Deliver(message_id, "message_updated", sender_name, message_type)

InitListener ==
  /\ world = NoWorld
  /\ NoMessages
  /\ timing = NoTiming
  /\ config = NoConfig
  /\ setup = NoSetup
  /\ adapter = NoAdapter
  /\ graph = NoGraph
  /\ creds = NoCreds
  /\ bridge = NoBridge
  /\ demo = NoDemo
  /\ listener \in {[NoListener EXCEPT !.content = c] : c \in Contents \ {<<>>}}
  /\ envfile = NoEnvFile

NextListener ==
  \/ \E m \in MessageIds, s \in Senders, t \in MessageTypes : MessageCreated(m, s, t)
  \/ \E m \in MessageIds, s \in Senders, t \in MessageTypes : MessageUpdated(m, s, t)

SpecListener == InitListener /\ [][NextListener]_vars

\* ---------------------------------------------------------------------------
\* SpecEnvFile: _append_env_vars rewrites the .env file
\* ---------------------------------------------------------------------------

MaxLines == 3

\* A line of the .env file: what it is, the variable and value it names, how
\* it is written, and whether it ends with a newline (only the last line of a
\* file may lack one).
Line(kind, name, value, form) ==
  [kind |-> kind, name |-> name, value |-> value, form |-> form, eol |-> TRUE]

\* "NAME=value", or with form " =" the line "NAME =value".
Assignment(name, value, form) == Line("assign", name, value, form)

BlankLine == Line("blank", "", "", "")

\* The comment that introduces the appended variables.
HeaderLine == Line("comment", "", "Room IDs (auto-generated by setup_demo.py)", "#")

\* The variables the setup script writes (two stand for them), in the order of
\* the dict, and the values a variable can have.
VarNames == <<"SUPPORT_USER_ROOM_ID", "SUPPORT_EXCEL_ROOM_ID">>

VarValues == {"old", "new"}

EnvVars ==
  UNION {[names -> VarValues] :
           names \in SUBSET {VarNames[i] : i \in 1..Len(VarNames)} \ {{}}}

\* The lines a .env file is made of here: assignments of the two variables,
\* tight and spaced, an assignment of another variable, a commented-out
\* assignment, the header comment and a whitespace-only line.
FileLines ==
  {Assignment(VarNames[1], "old", "="), Assignment(VarNames[1], "old", " ="),
   Assignment(VarNames[1], "new", "="), Assignment(VarNames[2], "old", "="),
   Assignment("THENVOI_REST_URL", "old", "="),
   Line("comment", VarNames[1], "old", "#"), HeaderLine, BlankLine}

EnvFiles ==
  {<<>>} \cup
  UNION {{[f EXCEPT ![n].eol = e] : f \in [1..n -> FileLines], e \in BOOLEAN} :
           n \in 1..MaxLines}

\* stripped.startswith(f"{var_name}=") or stripped.startswith(f"{var_name} =")
SetsVariable(line, var_name) ==
  line.kind = "assign" /\ line.name = var_name /\ line.form \in {"=", " ="}

\* The line written in place of one that sets a variable: f"{var_name}={var_value}\n".
UpdatedLineKept(line, env_vars) == line

UpdatedLine(line, env_vars) == Assignment(line.name, env_vars[line.name], "=")

\* line.strip() is non-empty.
NonBlank(line) == line.kind # "blank"

\* _append_env_vars: a line that sets one of the variables is replaced in
\* place; the variables left over are appended under the header comment, after
\* a "\n" when the last line is not blank; the lines are written out joined,
\* so what is appended after a last line without a newline continues that line.
AppendEnvVars(existing_lines, env_vars) ==
  LET names == DOMAIN env_vars
      n == Len(existing_lines)
      new_lines == [i \in 1..n |->
                      IF \E v \in names : SetsVariable(existing_lines[i], v)
                        THEN UpdatedLine(existing_lines[i], env_vars)
                        ELSE existing_lines[i]]
      updated == {v \in names : \E i \in 1..n : SetsVariable(existing_lines[i], v)}
      remaining == SelectSeq(VarNames, LAMBDA v : v \in names \ updated)
      appended == [i \in 1..Len(remaining) |-> Assignment(remaining[i], env_vars[remaining[i]], "=")]
  IN IF remaining = <<>> THEN new_lines
     ELSE IF n = 0 THEN <<HeaderLine>> \o appended
     ELSE IF NonBlank(new_lines[n])
       THEN IF new_lines[n].eol
              THEN new_lines \o <<BlankLine, HeaderLine>> \o appended
              ELSE [new_lines EXCEPT ![n].eol = TRUE] \o <<HeaderLine>> \o appended
     ELSE IF new_lines[n].eol
       THEN new_lines \o <<HeaderLine>> \o appended
     ELSE SubSeq(new_lines, 1, n - 1) \o <<[HeaderLine EXCEPT !.form = "  #"]>> \o appended

\* The setup script calls _append_env_vars; a rerun calls it again with the
\* same variables.
CallAppendEnvVars ==
  /\ envfile.env_vars # <<>>
  /\ envfile.calls < 2
  /\ envfile' = [envfile EXCEPT
       !.calls = envfile.calls + 1,
       !.file = AppendEnvVars(envfile.file, envfile.env_vars),
       !.first = IF envfile.calls = 0 THEN AppendEnvVars(envfile.file, envfile.env_vars)
                 ELSE envfile.first]
  /\ UNCHANGED <<mainVars, timing, config, setup, adapter, graph, creds, bridge, demo, listener>>

InitEnvFile ==
  /\ world = NoWorld
  /\ NoMessages
  /\ timing = NoTiming
  /\ config = NoConfig
  /\ setup = NoSetup
  /\ adapter = NoAdapter
  /\ graph = NoGraph
  /\ creds = NoCreds
  /\ bridge = NoBridge
  /\ demo = NoDemo
  /\ listener = NoListener
  /\ envfile \in {[NoEnvFile EXCEPT !.env_vars = v, !.file = f, !.before = f] :
                    v \in EnvVars, f \in EnvFiles}

NextEnvFile == CallAppendEnvVars

SpecEnvFile == InitEnvFile /\ [][NextEnvFile]_vars

\* ====================================================================
\* Claims
\* ====================================================================
Resolutions(i) == {invs[i].resolutions[k] : k \in 1..Len(invs[i].resolutions)}

RequestsOf(i, role) ==
  {k \in 1..Len(invs[i].reqLog) : invs[i].reqLog[k].role = role}

C4_NotEntitledFirst ==
  \A i \in 1..Cur : \A res \in Resolutions(i) :
    res.used.excel = "not_entitled" => res.outcome = "NotEntitled"

\* Not entitled together with an issue-search match resolved as Not-Entitled.
C4_Witness ==
  \E i \in 1..Cur : \E res \in Resolutions(i) :
    /\ res.used.excel = "not_entitled"
    /\ res.used.github = "match"
    /\ res.outcome = "NotEntitled"

Quiescent ==
  /\ pc = "idle"
  /\ \A room \in SpecialistRooms : inbox[room] = <<>> /\ reqs[room] = <<>>

\* C2 (as claimed): the result a resolution reads for a role is the first
\* one delivered for that role.  Stated for roles that received only
\* results of the investigation's own tasks.
C2_FirstResultWins ==
  \A i \in 1..Cur : \A res \in Resolutions(i) : \A r \in Roles :
    ( /\ res.used[r] # "none"
      /\ \A k \in 1..Len(invs[i].received[r]) :
            invs[i].received[r][k].origin = i )
    => res.used[r] = invs[i].received[r][1].val

\* C3 (as claimed): an investigation is resolved at most once and gets at
\* most one final reply.  Stated for investigations in which nothing
\* errored out.
C3_ResolvedOnce ==
  \A i \in 1..Cur :
    ~ErroredOut(invs[i]) =>
      Len(invs[i].resolutions) <= 1 /\ Len(invs[i].replies) <= 1

\* C5 (as claimed): no investigation is left waiting.  Stated for the one
\* case the claim names: all three requests were sent, the customer-data and
\* issue-search results are recorded, the reproduction role stays silent;
\* once nothing more can happen the customer has a reply.
C5_ResolvesDespiteSilence ==
  ( /\ Quiescent
    /\ Cur = 1
    /\ invs[1].returned
    /\ invs[1].failed = {}
    /\ invs[1].received["excel"] # <<>>
    /\ invs[1].received["github"] # <<>> )
  => invs[1].replies # <<>>

\* C7 (as claimed): a task_result whose task_id was never issued is not
\* recorded in any investigation.
C7_OrphanNotRecorded ==
  \A i \in 1..Cur : \A r \in Roles : \A k \in 1..Len(invs[i].received[r]) :
    invs[i].received[r][k].task_id # 0

\* C8 (as claimed): a result answering an issued task is recorded only in
\* the investigation, and under the role, that dispatched its task_id.
C8_RecordedByTaskId ==
  \A i \in 1..Cur : \A r \in Roles : \A k \in 1..Len(invs[i].received[r]) :
    LET m == invs[i].received[r][k]
    IN m.origin # 0 =>
         /\ m.origin = i
         /\ \E q \in RequestsOf(i, r) : invs[i].reqLog[q].task_id = m.task_id

\* C9 (as claimed): no response to a dispatch is consumed before all of its
\* requests are sent.
C9_NothingConsumedBeforeAllSent ==
  \A i \in 1..Cur :
    (\E r \in Roles : \E k \in 1..Len(invs[i].received[r]) :
        invs[i].received[r][k].origin = i)
    => invs[i].returned

\* C9 (amended): a dispatch in progress never waits: its next send can be
\* made whatever has or has not arrived.
C9_DispatchNeverWaits ==
  pc \in Roles => ENABLED SendRequest

\* A dispatch still has its last request to send while the first
\* specialist's response to it is already recorded.
C9_Witness ==
  /\ pc = "browser"
  /\ \E k \in 1..Len(invs[Cur].received["excel"]) :
       invs[Cur].received["excel"][k].origin = Cur

C11_OneEscalationWithRequestText ==
  \A i \in 1..Cur :
    (\E res \in Resolutions(i) : res.outcome = "NewIssue") =>
      /\ Cardinality(RequestsOf(i, "linear")) = 1
      /\ \A q \in RequestsOf(i, "linear") :
           /\ invs[i].reqLog[q].intent = "create_bug_report"
           /\ invs[i].reqLog[q].description # {}
           /\ invs[i].reqLog[q].user_request \in invs[i].reqLog[q].description

\* C12: no request is sent to the Linear room for an investigation unless a
\* New-Issue outcome was resolved for it: an investigation with no New-Issue
\* resolution (not yet resolved, or resolved Not-Entitled, Known-Issue or to
\* no branch) has no escalation request logged and none waiting in the room.
C12_EscalationOnlyOnNewIssue ==
  \A i \in 1..Cur :
    (\A res \in Resolutions(i) : res.outcome # "NewIssue") =>
      /\ RequestsOf(i, "linear") = {}
      /\ \A k \in 1..Len(reqs["linear"]) : reqs["linear"][k].origin # i

\* Investigations resolved Known-Issue and Not-Entitled, each answered, with
\* no request ever sent to the Linear room.
C12_Witness ==
  /\ Cur = 2
  /\ \E res \in Resolutions(1) : res.outcome \in {"KnownIssue", "NotEntitled"}
  /\ \E res \in Resolutions(2) : res.outcome \in {"KnownIssue", "NotEntitled"}
  /\ invs[1].replies # <<>> /\ invs[2].replies # <<>>
  /\ \A i \in 1..2 : RequestsOf(i, "linear") = {}

\* C13 (as claimed): with the customer entitled, the outcome is Known-Issue
\* when the issue search found a match and New-Issue when it found none.
\* Stated for investigations that recorded only results of their own tasks
\* and in which the reproduction specialist answered without error.
C13_EntitledDecidedByIssueSearch ==
  \A i \in 1..Cur : \A res \in Resolutions(i) :
    ( /\ res.used["excel"] = "entitled"
      /\ res.used["browser"] \in {"reproduced", "not_reproduced"}
      /\ \A r \in Roles : \A k \in 1..Len(invs[i].received[r]) :
           invs[i].received[r][k].origin = i ) =>
      /\ res.used["github"] = "match" => res.outcome = "KnownIssue"
      /\ res.used["github"] = "no_match" => res.outcome = "NewIssue"

\* C14 (as claimed): two resolutions that read the same customer-data and
\* issue-search results and different reproduction results have the same
\* outcome, and so file a ticket or not alike.  Stated for reproduction
\* results that are answers without error.
C14_ReproductionNonGating ==
  \A i \in 1..Cur : \A j \in 1..Cur :
    \A res1 \in Resolutions(i) : \A res2 \in Resolutions(j) :
      ( /\ res1.used["excel"] = res2.used["excel"]
        /\ res1.used["github"] = res2.used["github"]
        /\ res1.used["browser"] # res2.used["browser"]
        /\ {res1.used["browser"], res2.used["browser"]}
              = {"reproduced", "not_reproduced"} )
      => /\ res1.outcome = res2.outcome
         /\ Escalates(res1.outcome) = Escalates(res2.outcome)

\* Every combination of results a synthesis can read.
ResultSets ==
  [ excel   : Vals("excel") \cup {"none"},
    github  : Vals("github") \cup {"none"},
    browser : Vals("browser") \cup {"none"} ]

\* C15 (as claimed): a failed customer lookup gives an outcome of its own:
\* never Known-Issue or New-Issue, no ticket, and not an outcome that a
\* result set with a successful lookup can give.  Stated for investigations
\* that recorded only results of their own tasks.
C15_LookupFailedDistinct ==
  \A i \in 1..Cur : \A res \in Resolutions(i) :
    ( /\ res.used["excel"] = "error"
      /\ \A r \in Roles : \A k \in 1..Len(invs[i].received[r]) :
           invs[i].received[r][k].origin = i ) =>
      /\ res.outcome \notin {"KnownIssue", "NewIssue"}
      /\ ~Escalates(res.outcome)
      /\ \A u \in ResultSets :
           u.excel \in {"entitled", "not_entitled"} =>
             res.outcome \notin ResolveOutcomes(u)

AsErrorResult(inv, r) ==
  [inv EXCEPT !.failed = @ \ {r},
              !.received[r] = Append(@, [task_id |-> 0, val |-> "error",
                                         room |-> r, origin |-> 0])]

C19_RespondsOnlyToOrchestratorRequests ==
  \A room \in SpecialistRooms : \A k \in 1..Len(handled[room]) :
    LET c == handled[room][k].cause
    IN /\ handled[room][k].out # <<>> =>
            c.sender = "SupportOrchestrator" /\ c.kind = "task_request"
       /\ ( \/ c.sender = AgentOf(room)
            \/ c.sender \notin {"SupportOrchestrator", AgentOf(room)}
            \/ c.kind # "task_request" )
          => handled[room][k].out = <<>>

\* A specialist answered a request, was then shown its own task_result and
\* sent nothing for it: the orchestrator got that one result from the room
\* and no more.
C19_Witness ==
  \E room \in Roles :
    /\ Len(handled[room]) = 2
    /\ handled[room][1].out # <<>>
    /\ handled[room][2].cause.sender = AgentOf(room)
    /\ handled[room][2].cause.kind = "task_result"
    /\ handled[room][2].out = <<>>
    /\ reqs[room] = <<>>
    /\ Len(inbox[room]) + Len(invs[Cur].received[room]) = 1

\* C20: every message a specialist sends carries the task_id of the request
\* it answers, is posted in the room the request arrived in, and mentions
\* the orchestrator and nobody else.
C20_ResultAddressedToOrchestrator ==
  \A room \in SpecialistRooms : \A k \in 1..Len(handled[room]) :
    \A n \in 1..Len(handled[room][k].out) :
      /\ handled[room][k].out[n].task_id = handled[room][k].cause.task_id
      /\ handled[room][k].out[n].room = room
      /\ handled[room][k].out[n].mentions = {"SupportOrchestrator"}

\* Each of the four specialists has answered a request of the orchestrator.
C20_Witness ==
  \A room \in SpecialistRooms :
    \E k \in 1..Len(handled[room]) :
      /\ handled[room][k].cause.sender = "SupportOrchestrator"
      /\ Len(handled[room][k].out) = 1

\* ------------------------------------------------------ specialist results
\* The task_results a specialist sent for the k-th message it handled.
Sent(room, k) == handled[room][k].out

\* The k-th message a specialist handled is a task_request of the
\* orchestrator that names an intent the specialist does not support.
IsUnsupportedRequest(room, k) ==
  /\ handled[room][k].cause.sender = "SupportOrchestrator"
  /\ handled[room][k].cause.kind = "task_request"
  /\ handled[room][k].cause.intent \notin SupportedIntents(room)

\* C21: a task_request whose intent the specialist does not support is
\* answered with exactly one task_result of status error whose error code is
\* UNSUPPORTED_INTENT, and the specialist's tool is not run for it.
C21_UnsupportedIntentRejected ==
  \A room \in SpecialistRooms : \A k \in 1..Len(handled[room]) :
    IsUnsupportedRequest(room, k) =>
      /\ Len(Sent(room, k)) = 1
      /\ Sent(room, k)[1].status = "error"
      /\ Sent(room, k)[1].code = "UNSUPPORTED_INTENT"
      /\ ~handled[room][k].ran

\* C22: every task_result has status success or error, carries "result"
\* exactly when its status is success, and carries the error object with
\* code and message exactly when its status is error.
C22_ResultShape ==
  \A room \in SpecialistRooms : \A k \in 1..Len(handled[room]) :
    \A n \in 1..Len(Sent(room, k)) :
      LET r == Sent(room, k)[n]
      IN /\ r.status \in {"success", "error"}
         /\ ("result" \in r.fields) <=> (r.status = "success")
         /\ ("error" \in r.fields) <=> (r.status = "error")
         /\ (r.status = "error") <=> (r.error = {"code", "message"})
         /\ (r.status = "error") <=> (r.code # "none")

\* A successful and an error task_result have both been sent.
C22_Witness ==
  /\ \E room \in SpecialistRooms : \E k \in 1..Len(handled[room]) :
       Len(Sent(room, k)) = 1 /\ Sent(room, k)[1].status = "success"
  /\ \E room \in SpecialistRooms : \E k \in 1..Len(handled[room]) :
       Len(Sent(room, k)) = 1 /\ Sent(room, k)[1].status = "error"

\* C23: when the tool a specialist ran for a request reported a failure,
\* every task_result sent for that request has status error, and one was
\* sent.
C23_FailureNeverSuccess ==
  \A room \in SpecialistRooms : \A k \in 1..Len(handled[room]) :
    (handled[room][k].ran /\ ToolFailed(room, handled[room][k].tool)) =>
      /\ Sent(room, k) # <<>>
      /\ \A n \in 1..Len(Sent(room, k)) : Sent(room, k)[n].status = "error"

\* The customer lookup and the issue search both failed for supported
\* requests and both were answered.
C23_Witness ==
  \A room \in {"excel", "github"} : \E k \in 1..Len(handled[room]) :
    /\ handled[room][k].cause.intent \in SupportedIntents(room)
    /\ handled[room][k].ran
    /\ ToolFailed(room, handled[room][k].tool)
    /\ Len(Sent(room, k)) = 1
    /\ Sent(room, k)[1].status = "error"

\* ---------------------------------------------------- the customer's room
\* The results an investigation recorded all answer its own requests.
OwnResultsOnly(i) ==
  \A r \in Roles : \A k \in 1..Len(invs[i].received[r]) :
    invs[i].received[r][k].origin = i

ContentFormat(room) == IF room = "user" THEN "prose" ELSE "json"

\* What the orchestrator sent to the user room for an investigation: the
\* acknowledgement, then one message per final reply.
UserRoomLog(i) ==
  (IF invs[i].acked THEN << [kind |-> "ack", format |-> ContentFormat("user")] >>
                    ELSE << >>)
  \o [ k \in 1..Len(invs[i].replies) |->
         [kind |-> "reply", format |-> ContentFormat("user")] ]

\* C25 (as claimed): the customer gets a single synthesized reply per
\* investigation, exactly one once nothing more can happen after all three
\* results were recorded, and no message to the user room is raw JSON.
C25_SingleProseReply ==
  \A i \in 1..Cur :
    LET log == UserRoomLog(i)
        n   == Cardinality({k \in 1..Len(log) : log[k].kind = "reply"})
    IN /\ n <= 1
       /\ (Quiescent /\ OwnResultsOnly(i) /\ ~ErroredOut(invs[i])
             /\ \A r \in Roles : invs[i].received[r] # <<>>) => n = 1
       /\ \A k \in 1..Len(log) : log[k].format = "prose"

\* ------------------------------------------------------------- timing data
\* C24: in every task_result processing_ms equals completed_at minus
\* started_at in milliseconds, within 1 ms, and completed_at is not earlier
\* than started_at.
C24_TimingIdentity ==
  timing.room # "none" =>
    /\ timing.completed_at >= timing.started_at
    /\ timing.processing_ms <= (timing.completed_at - timing.started_at) + 1
    /\ timing.processing_ms + 1 >= timing.completed_at - timing.started_at

\* A task_result whose work took more than a second, started later than 0.
C24_Witness ==
  /\ timing.room \in SpecialistRooms
  /\ timing.started_at > 0
  /\ timing.completed_at - timing.started_at > 1000
  /\ timing.processing_ms > 1000

\* ------------------------------------------------------ room configuration
\* The variables of the environment that are set to a non-empty value.
SetKeys == {k \in Keys : config.env[k] \notin {"unset", ""}}

\* C27: from_env returns a configuration exactly when all five variables
\* are set and non-empty, and the configuration then holds the five room
\* ids of the environment; otherwise it raises ValueError naming every
\* missing variable, and no configuration, not even a partial one, exists.
C27_FromEnvAllOrNothing ==
  config.loaded.raised # "pending" =>
    /\ (config.loaded.raised = "none") <=> (SetKeys = Keys)
    /\ SetKeys = Keys =>
         /\ DOMAIN config.loaded.rooms = Keys
         /\ \A k \in Keys : config.loaded.rooms[k] = config.env[k]
    /\ SetKeys # Keys =>
         /\ config.loaded.raised = "ValueError"
         /\ {config.loaded.names[n] : n \in 1..Len(config.loaded.names)}
              = {EnvVar(k) : k \in Keys \ SetKeys}
         /\ DOMAIN config.loaded.rooms = {}

\* from_env raised with one variable unset and another one empty.
C27_Witness ==
  /\ config.loaded.raised = "ValueError"
  /\ Len(config.loaded.names) = 2
  /\ \E k \in Keys : config.env[k] = "unset"
  /\ \E k \in Keys : config.env[k] = ""

\* The order in which specialist_room_for tries the keywords.
Rank(keyword) ==
  CASE keyword = "excel"   -> 1
    [] keyword = "github"  -> 2
    [] keyword = "browser" -> 3
    [] keyword = "linear"  -> 4

\* The keywords a name contains, in whatever letter case.
KeywordsIn(name) ==
  {kw \in SpecialistRooms : \E n \in 1..Len(name) : Lower(name[n]) = kw}

\* C28 (as claimed): for a name that contains a keyword in any letter case
\* the room of that keyword is returned, and None for a name that contains
\* none of the four.
C28_RoomOfContainedKeyword ==
  \A n \in 1..Len(config.lookup) :
    LET l == config.lookup[n]
    IN /\ \A kw \in KeywordsIn(l.name) : l.room = config.loaded.rooms[kw]
       /\ KeywordsIn(l.name) = {} => l.room = "None"

\* C28 (amended): the room returned is that of the first of the keywords
\* excel, github, browser, linear, in this order, that the name contains in
\* any letter case; None when it contains none.
C28_FirstKeywordWins ==
  \A n \in 1..Len(config.lookup) :
    LET l == config.lookup[n]
    IN /\ \A kw \in KeywordsIn(l.name) :
            (\A other \in KeywordsIn(l.name) : Rank(kw) <= Rank(other))
              => l.room = config.loaded.rooms[kw]
       /\ KeywordsIn(l.name) = {} => l.room = "None"

\* A name that contains two keywords, the later-tried one first, got the
\* room of the earlier-tried one.
C28_Witness ==
  /\ config.lookup # <<>>
  /\ config.lookup[1].name = <<"GitHub", "Excel">>
  /\ config.lookup[1].room = RoomId("excel")

\* C29: a message a cross-room tool delivers is in the room configured for
\* that tool and in no other; called without a mentions argument a
\* specialist-room tool mentions that room's specialist and nobody else,
\* and send_to_user_room mentions nobody.
C29_ToolsDeliverToOwnRoom ==
  \A n \in 1..Len(config.sent) :
    LET m == config.sent[n]
    IN /\ m.delivered => m.room = config.env[m.tool]
       /\ ~m.delivered => m.room = "none"
       /\ (m.tool # "user" /\ ~m.given) => m.mentions = <<AgentOf(m.tool)>>
       /\ m.tool = "user" => m.mentions = <<>>

\* send_to_github_room delivered a message without a mentions argument.
C29_Witness ==
  \E n \in 1..Len(config.sent) :
    /\ config.sent[n].tool = "github"
    /\ config.sent[n].delivered
    /\ ~config.sent[n].given
    /\ config.sent[n].room = RoomId("github")
    /\ config.sent[n].mentions = <<"GitHubSupportAgent">>

\* ---------------------------------------------------------- setup script
\* C30: when a run of setup has ended, complete or by exiting, every agent
\* the platform registered has its agent_id and its one-time api_key in
\* agent_config.yaml.
C30_KeysPersisted ==
  setup.pc \in {"done", "exited"} =>
    \A a \in AgentKeys :
      setup.platform[a] # "" =>
        setup.file[a] = [agent_id |-> AgentId(a), api_key |-> setup.platform[a]]

\* C31: once every on_message call entered on the adapter has returned or
\* raised, additional_tools and _system_prompt are what they were before the
\* first call.
C31_AdapterRestored ==
  (/\ \E c \in Calls : adapter.calls[c].pc # "idle"
   /\ \A c \in Calls : adapter.calls[c].pc # "running") =>
    /\ adapter.additional_tools = ConfiguredAdapter.additional_tools
    /\ adapter.system_prompt = ConfiguredAdapter.system_prompt

\* C33: once every message handling of the specialist has returned,
\* astream_events is the original function, with no wrapper left installed.
C33_AstreamRestored ==
  (/\ \E c \in Calls : graph.handlings[c].pc # "idle"
   /\ \A c \in Calls : graph.handlings[c].pc \in {"idle", "returned"}) =>
    graph.astream_events = <<>>

\* C34: a specialist's resolved credentials take a value of its
\* agent_config.yaml entry before any value of the .env file (the process
\* environment alone comes first), and the agent_id and api_key it returns
\* belong to the same agent.
C34_YamlBeforeDotenv ==
  creds.result.raised = "no" =>
    /\ (creds.environ.agent_id = Unset /\ creds.yaml.agent_id # Unset) =>
         creds.result.agent_id = creds.yaml.agent_id
    /\ (creds.environ.api_key = Unset /\ creds.yaml.api_key # Unset) =>
         creds.result.api_key = creds.yaml.api_key
    /\ creds.result.agent_id.owner = creds.result.api_key.owner

\* C32: whatever UI clients connect or disconnect while a broadcast is in
\* progress, the broadcast loop keeps running.
C32_BroadcastLoopRuns == bridge.loop.pc # "crashed"

Positions(entry) == {i \in 1..Len(demo.log) : demo.log[i] = entry}

\* C35: each playback enqueues every scripted event at most once, and
\* demo_complete at most once and only after its last scripted event; a
\* start_demo received while a playback is running enqueues nothing; and
\* nothing of a playback is enqueued after the stop_demo that stopped it.
C35_PlaybackIntegrity ==
  /\ \A p \in 1..demo.playback :
       /\ \A k \in 1..Len(DemoEvents) : Cardinality(Positions(Entry(p, "scripted", k))) <= 1
       /\ Cardinality(Positions(Entry(p, "demo_complete", 0))) <= 1
       /\ \A i \in Positions(Entry(p, "demo_complete", 0)) :
            \E j \in Positions(Entry(p, "scripted", Len(DemoEvents))) : j < i
  /\ \A n \in 1..Len(demo.commands) :
       LET command == demo.commands[n] IN
       /\ (command.action = "start_demo" /\ command.running) => command.after = command.before
       /\ (command.action = "stop_demo" /\ command.running) =>
            \A i \in 1..Len(demo.log) :
              (i > command.after /\ demo.log[i].type \in {"scripted", "demo_complete"}) =>
                demo.log[i].playback # command.playback

\* One playback was stopped after its first scripted event, a second one ran to
\* its demo_complete, and a start_demo arrived while one of them was running.
C35_Witness ==
  /\ Positions(Entry(1, "scripted", 1)) # {}
  /\ Positions(Entry(1, "demo_complete", 0)) = {}
  /\ Positions(Entry(2, "demo_complete", 0)) # {}
  /\ \E n \in 1..Len(demo.commands) :
       demo.commands[n].action = "start_demo" /\ demo.commands[n].running
  /\ \E n \in 1..Len(demo.commands) :
       demo.commands[n].action = "stop_demo" /\ demo.commands[n].running

\* The places of the queue that hold the "message" event of a room message.
MessagePositions(message_id) ==
  {i \in 1..Len(listener.queue) :
     listener.queue[i].type = "message" /\ listener.queue[i].message_id = message_id}

\* The status of the agent_status event queued right after the given place.
StatusAfter(i) ==
  IF i < Len(listener.queue) /\ listener.queue[i + 1].type = "agent_status"
    THEN <<listener.queue[i + 1].status>>
    ELSE <<>>

\* The room message passes the listener's filter.
Forwardable(message_id) ==
  /\ listener.payloads[message_id] # NoPayload
  /\ listener.payloads[message_id].sender_name # "UIObserver"
  /\ listener.payloads[message_id].message_type \in {"text", ""}

\* C37: a room message is forwarded only if its sender is not UIObserver and
\* its type is text or empty, and a forwarded message has exactly one "message"
\* event on the queue, whichever of message_created and message_updated the
\* platform delivered for it.
C37_OneMessageEvent ==
  \A m \in MessageIds :
    Cardinality(MessagePositions(m)) = IF Forwardable(m) THEN 1 ELSE 0

\* C38: a protocol object J gives the same agent_status alone and behind an
\* "@Name" mention (working for a task_request, done for a task_result with
\* status success, error for a task_result with any other status), and an
\* agent_status is queued only for content that ends in a protocol object of
\* type task_request or task_result which is the whole content or the first
\* JSON object of content that starts with a mention.
ExpectedStatus(proto) ==
  IF proto.type = "task_request" THEN <<"working">>
  ELSE IF proto.type = "task_result"
    THEN IF proto.status = "success" THEN <<"done">> ELSE <<"error">>
  ELSE <<>>

IsProtocolObject(token) == token.kind = "object" /\ token.protocol = "orchestrator/v1"

SameBehindMention ==
  (Len(listener.content) = 1 /\ IsProtocolObject(listener.content[1])) =>
    /\ \A m \in MessageIds : \A i \in MessagePositions(m) :
         StatusAfter(i) = ExpectedStatus(listener.content[1])
    /\ \A i \in MessagePositions(1), j \in MessagePositions(2) : StatusAfter(i) = StatusAfter(j)

C38_MentionStripped ==
  /\ SameBehindMention
  /\ \A m \in MessageIds : \A i \in MessagePositions(m) :
       StatusAfter(i) # <<>> =>
         LET content == ContentOf(m)
             last == Len(content) IN
         /\ IsProtocolObject(content[last])
         /\ content[last].type \in {"task_request", "task_result"}
         /\ \A k \in 1..(last - 1) : content[k].kind # "object"
         /\ last = 1 \/ content[1].kind = "mention"

\* C38 as stated: an agent_status is queued only for content that is a
\* protocol object, alone or behind leading mentions.
C38_OnlyProtocolObjects ==
  /\ SameBehindMention
  /\ \A m \in MessageIds : \A i \in MessagePositions(m) :
       StatusAfter(i) # <<>> =>
         LET content == ContentOf(m)
             last == Len(content) IN
         /\ IsProtocolObject(content[last])
         /\ \A k \in 1..(last - 1) : content[k].kind = "mention"

\* A successful task_result was forwarded alone and behind a mention, each
\* time followed by the status done.
C38_Witness ==
  /\ listener.content = <<JsonObject("orchestrator/v1", "task_result", "success")>>
  /\ \E i \in MessagePositions(1) : StatusAfter(i) = <<"done">>
  /\ \E j \in MessagePositions(2) : StatusAfter(j) = <<"done">>

\* The text of a line, whatever ends it.
TextOf(line) == [line EXCEPT !.eol = TRUE]

\* The line of the original file sets one of the variables being written.
Related(line) == \E v \in DOMAIN envfile.env_vars : SetsVariable(line, v)

\* After a call every variable written is set in the file to the given value,
\* by every line that sets it; a variable that was set keeps its lines' places
\* and a new one is set on the last lines of the file.
VariablesWritten ==
  LET before == envfile.before
      after == envfile.first IN
  /\ \A v \in DOMAIN envfile.env_vars :
       /\ \E i \in 1..Len(after) : after[i] = Assignment(v, envfile.env_vars[v], "=")
       /\ \A i \in 1..Len(after) :
            SetsVariable(after[i], v) => after[i].value = envfile.env_vars[v]
       /\ \A i \in 1..Len(before) :
            SetsVariable(before[i], v) =>
              (i <= Len(after) /\ after[i] = Assignment(v, envfile.env_vars[v], "="))
       /\ (\A i \in 1..Len(before) : ~SetsVariable(before[i], v)) =>
            \E i \in 1..Len(after) :
              /\ after[i] = Assignment(v, envfile.env_vars[v], "=")
              /\ i >= Len(before)
              /\ \A j \in (i + 1)..Len(after) :
                   \E w \in DOMAIN envfile.env_vars : SetsVariable(after[j], w)

\* A second call with the same variables leaves the file as the first left it.
SecondCallChangesNothing == envfile.calls = 2 => envfile.file = envfile.first

=============================================================================
